---- MODULE Spec2Model ----
(***************************************************************************)
(* The grammar context manager of vscode-antlr4 (class AntlrFacade): the   *)
(* map from file names to reference-counted grammar contexts, dependency   *)
(* resolution on every (re)parse and the recursive release.                *)
(*                                                                         *)
(* Every public method is one action: JavaScript runs a method to its end  *)
(* before the next call starts.  The methods call each other recursively   *)
(* (loadGrammar -> parseGrammar -> loadDependency -> loadGrammar), so they *)
(* are recursive operators over a machine value m:                         *)
(*   m.sc    the sourceContexts map                                        *)
(*   m.used      the context objects that exist: those in the map when the *)
(*               call started and those constructed since                 *)
(*   m.building  the file names whose loadGrammar call has registered the  *)
(*               new entry and has not yet counted its own reference       *)
(*   m.log       the events of the running call, in order, each with the   *)
(*               map as it is right after the event                        *)
(*   m.ret       the value the last call returned                          *)
(***************************************************************************)
EXTENDS Integers, Sequences, FiniteSets, TLC

VARIABLES
    sourceContexts,  \* AntlrFacade.sourceContexts: path -> ContextEntry
    importDir,       \* AntlrFacade.importDir, set by the constructor
    pending,         \* per path: the generate calls whose promise has not settled
    interpreter,     \* the context objects that hold interpreter data
    atn,             \* the transitions of the automaton in the interpreter data
    graph,           \* what the last getATNGraph call returned
    grammarText,     \* the characters of the grammar text the formatter is given
    formatted,       \* what the last formatGrammar call returned
    callbacks,       \* the calls of the callback in the last generateSentence call
    debugger,        \* what the last createDebugger call returned
    currentFile,     \* AntlrTreeDataProvider.currentFile
    notified,        \* what the listeners of the change event saw in the last refresh
    position,        \* what the last indexToPosition call returned
    net,             \* per path: loadGrammar calls minus releaseGrammar calls
    everOver         \* some releaseGrammar was called more often than loadGrammar

vars == <<sourceContexts, importDir, pending, interpreter, atn, graph, grammarText, formatted,
          callbacks, debugger, currentFile, notified, position, net, everOver>>

----------------------------------------------------------------------------
\* Bounds of the model.

\* loadGrammar(f) is called at most MaxHeld times more often than releaseGrammar(f)
MaxHeld == 2
\* releaseGrammar(f) is called at most MaxOver times more often than loadGrammar(f)
MaxOver == 1
\* at most MaxPending generate calls of a grammar are pending at a time
MaxPending == 2
\* the automaton of a rule has at most MaxTransitions transitions
MaxTransitions == 3
\* a grammar text given to the formatter has at most MaxText characters
MaxText == 4
\* a requested range starts and ends at most MaxOutside characters outside the text
MaxOutside == 1

----------------------------------------------------------------------------
\* Paths: <<directory, grammar name, extension>>; a directory is a sequence
\* of components, an absolute one starts with "/".

PathOf(dir, name, ext) == <<dir, name, ext>>

\* path.dirname
Dirname(p) == p[1]

\* path.isAbsolute
IsAbsolute(dir) == dir # <<>> /\ Head(dir) = "/"

\* path.join(base, dir)
Join(base, dir) == base \o dir

\* The import folder the constructor is given: relative to the folder of
\* the grammar, or the same folder of A as an absolute path.
relativeDir == <<"i">>

Root == <<"/", "r">>
Imports == Join(Root, relativeDir)

ImportDirs == {relativeDir, Imports}

pA  == PathOf(Root, "A", "g4")
pB  == PathOf(Imports, "B", "g4")
pCi == PathOf(Imports, "C", "g")
pCr == PathOf(Root, "C", "g4")
pN  == PathOf(Root, "T", "g")

\* An optional argument (source?: string) is a sequence of at most one
\* value: Undefined when it is left out, Given(text) otherwise.
Undefined == <<>>
Given(text) == <<text>>

\* A grammar text is a sequence of tokens: the names of the grammars it
\* imports (or takes its token vocabulary from) and other text "x".
GrammarNames == {"A", "B", "C", "Z"}

\* The file system: the readable grammar files and their text.  Grammar A
\* imports B and C, C imports B; C exists twice, in the import folder and
\* beside A.  No file of grammar Z exists, and pN does not exist.
Disk ==
    (pA :> <<"B", "C">>) @@ (pB :> <<"x">>) @@ (pCi :> <<"B">>) @@ (pCr :> <<"x">>)

\* fs.statSync / fs.accessSync succeed
Exists(p) == p \in DOMAIN Disk

\* SourceContext.parse() finds a syntax error: the text has a token "?"
HasErrors(text) == \E i \in DOMAIN text : text[i] = "?"

\* SourceContext.parse(): the names of the grammars the text depends on
Parse(text) == SelectSeq(text, LAMBDA t : t \in GrammarNames)

\* The file names the callers use, and the texts they supply for each.
PublicPaths == {pA, pB}
TextsFor(fileName) ==
    IF fileName = pA
    THEN {<<>>, <<"B">>, <<"B", "B">>, <<"Z", "C">>}
    ELSE {<<>>, <<"B">>, <<"C">>}

\* A context object is told apart from the others by its identity: the file
\* name it was constructed for and a serial number among the contexts of
\* that file name that exist.  NoCtx is no object.
Serials == 1 .. 3
NoCtx == <<>>

Min(S) == CHOOSE x \in S : \A y \in S : x <= y

\* The context of a name is the same object whenever it is made
FreshSame(m, fileName) == <<fileName, 1>>

\* new SourceContext(fileName)
Fresh(m, fileName) ==
    <<fileName, Min({n \in Serials : <<fileName, n>> \notin m.used})>>

\* An event of the running call: its kind, the file (or name) it is about,
\* the reference count it leaves (0 where it leaves none) and the map and
\* the unfinished loads right after it.
EmitN(m, kind, what, n) ==
    [m EXCEPT !.log = Append(@, [kind |-> kind, what |-> what, count |-> n,
                                 sc |-> m.sc, building |-> m.building])]
Emit(m, kind, what) == EmitN(m, kind, what, 0)

\* A write to a ContextEntry object through a reference held by the running
\* call.  It shows in the map only while the map still holds that object.
InMap(m, fileName, ctx) ==
    fileName \in DOMAIN m.sc /\ m.sc[fileName].context = ctx

----------------------------------------------------------------------------
\* AntlrFacade.internalReleaseGrammar

RECURSIVE internalReleaseGrammar(_, _, _)
RECURSIVE ReleaseDependencies(_, _, _)

\* The loop over the dependencies left out: nothing is released
ReleaseDependenciesNone(m, deps, referencing) == m

\* for (const dep of contextEntry.dependencies) internalReleaseGrammar(dep, contextEntry)
ReleaseDependencies(m, deps, referencing) ==
    IF deps = <<>> THEN m
    ELSE ReleaseDependencies(internalReleaseGrammar(m, Head(deps), referencing),
                             Tail(deps), referencing)

\* internalReleaseGrammar without the test refCount === 0: every release removes
internalReleaseGrammarAlways(m, fileName, referencing) ==
    IF fileName \notin DOMAIN m.sc THEN m
    ELSE LET contextEntry == m.sc[fileName]
             refCount == contextEntry.refCount - 1
             m2 == [m EXCEPT !.sc = [p \in DOMAIN m.sc \ {fileName} |-> m.sc[p]]]
             m3 == Emit(EmitN(m2, "release", fileName, refCount), "delete", fileName)
         IN ReleaseDependencies(m3, contextEntry.dependencies, contextEntry.context)

\* internalReleaseGrammar without the test if (contextEntry): a name that is
\* not in the map is counted down all the same
internalReleaseGrammarBlind(m, fileName, referencing) ==
    IF fileName \notin DOMAIN m.sc THEN EmitN(m, "release", fileName, -1)
    ELSE LET contextEntry == m.sc[fileName]
             m1 == IF referencing # NoCtx
                   THEN Emit(m, "removeDependency", <<referencing, contextEntry.context>>)
                   ELSE m
             refCount == contextEntry.refCount - 1
         IN IF refCount = 0
            THEN LET m2 == [m1 EXCEPT !.sc = [p \in DOMAIN m1.sc \ {fileName} |-> m1.sc[p]]]
                     m3 == Emit(EmitN(m2, "release", fileName, refCount), "delete", fileName)
                 IN ReleaseDependencies(m3, contextEntry.dependencies, contextEntry.context)
            ELSE EmitN([m1 EXCEPT !.sc[fileName].refCount = refCount],
                       "release", fileName, refCount)

internalReleaseGrammar(m, fileName, referencing) ==
    IF fileName \notin DOMAIN m.sc THEN m
    ELSE LET contextEntry == m.sc[fileName]
             m1 == IF referencing # NoCtx
                   THEN Emit(m, "removeDependency", <<referencing, contextEntry.context>>)
                   ELSE m
             refCount == contextEntry.refCount - 1
         IN IF refCount = 0
            THEN LET m2 == [m1 EXCEPT !.sc = [p \in DOMAIN m1.sc \ {fileName} |-> m1.sc[p]]]
                     m3 == Emit(EmitN(m2, "release", fileName, refCount), "delete", fileName)
                 IN ReleaseDependencies(m3, contextEntry.dependencies, contextEntry.context)
            ELSE EmitN([m1 EXCEPT !.sc[fileName].refCount = refCount],
                       "release", fileName, refCount)

\* AntlrFacade.releaseGrammar
releaseGrammar(m, fileName) == internalReleaseGrammar(m, fileName, NoCtx)

RECURSIVE ReleaseAll(_, _)
\* for (const dep of oldDependencies) this.releaseGrammar(dep)
ReleaseAll(m, deps) ==
    IF deps = <<>> THEN m
    ELSE ReleaseAll(releaseGrammar(m, Head(deps)), Tail(deps))

----------------------------------------------------------------------------
\* AntlrFacade.loadGrammar, parseGrammar, loadDependency

\* The folder of the grammar searched before the import folder
CandidatesOwnFirst(grammar, depName) ==
    LET basePath == Dirname(grammar)
        fullPath == IF IsAbsolute(importDir) THEN importDir ELSE Join(basePath, importDir)
    IN << PathOf(basePath, depName, "g4"), PathOf(basePath, depName, "g"),
          PathOf(fullPath, depName, "g4"), PathOf(fullPath, depName, "g") >>

\* The four places loadDependency looks at, in its order.
Candidates(grammar, depName) ==
    LET basePath == Dirname(grammar)
        fullPath == IF IsAbsolute(importDir) THEN importDir ELSE Join(basePath, importDir)
    IN << PathOf(fullPath, depName, "g4"), PathOf(fullPath, depName, "g"),
          PathOf(basePath, depName, "g4"), PathOf(basePath, depName, "g") >>

\* if (!source): an absent and an empty text are both falsy
Falsy(source) == source = Undefined \/ source = Given(<<>>)

\* The catch branch leaves a text that is not the empty one
ReadFileOther(fileName) == IF Exists(fileName) THEN Disk[fileName] ELSE <<"B">>

\* fs.readFileSync, "" when the file cannot be read
ReadFile(fileName) == IF Exists(fileName) THEN Disk[fileName] ELSE <<>>

RECURSIVE loadGrammar(_, _, _)
RECURSIVE parseGrammar(_, _, _)
RECURSIVE LoadDependencies(_, _, _, _)
RECURSIVE loadDependency(_, _, _, _, _)

\* loadGrammar without its contextEntry.refCount++
loadGrammarNoCount(m, fileName, source) ==
    IF fileName \in DOMAIN m.sc
    THEN EmitN([m EXCEPT !.ret = m.sc[fileName].context],
               "addRef", fileName, m.sc[fileName].refCount)
    ELSE LET text == IF Falsy(source) THEN ReadFile(fileName) ELSE source[1]
             context == Fresh(m, fileName)
             contextEntry == [context |-> context, refCount |-> 0, dependencies |-> <<>>,
                              grammar |-> fileName, source |-> text,
                              hasErrors |-> FALSE]
             m1 == Emit([m EXCEPT !.sc = (fileName :> contextEntry) @@ @,
                                  !.used = @ \cup {context},
                                  !.building = @ \cup {fileName}], "new", fileName)
             m2 == parseGrammar(m1, fileName, context)
             m3 == [m2 EXCEPT !.building = @ \ {fileName}]
         IN [EmitN(m3, "addRef", fileName, 0) EXCEPT !.ret = context]

loadGrammar(m, fileName, source) ==
    IF fileName \in DOMAIN m.sc
    THEN EmitN([m EXCEPT !.sc[fileName].refCount = @ + 1,
                         !.ret = m.sc[fileName].context],
               "addRef", fileName, m.sc[fileName].refCount + 1)
    ELSE LET text == IF Falsy(source) THEN ReadFile(fileName) ELSE source[1]
             m0 == IF Falsy(source) THEN Emit(m, "read", fileName) ELSE m
             context == Fresh(m0, fileName)
             contextEntry == [context |-> context, refCount |-> 0, dependencies |-> <<>>,
                              grammar |-> fileName, source |-> text,
                              hasErrors |-> FALSE]
             m1 == Emit([m0 EXCEPT !.sc = (fileName :> contextEntry) @@ @,
                                   !.used = @ \cup {context},
                                   !.building = @ \cup {fileName}], "new", fileName)
             m2 == parseGrammar(m1, fileName, context)
             m3 == [m2 EXCEPT !.building = @ \ {fileName}]
             m4 == IF InMap(m3, fileName, context)
                   THEN [m3 EXCEPT !.sc[fileName].refCount = @ + 1]
                   ELSE m3
         IN [EmitN(m4, "addRef", fileName,
                   IF InMap(m4, fileName, context) THEN m4.sc[fileName].refCount ELSE 0)
               EXCEPT !.ret = context]

\* loadDependency that takes the last candidate when none exists
loadDependencyAny(m, fileName, context, depName, i) ==
    LET candidates == Candidates(fileName, depName)
    IN IF i >= Len(candidates) \/ Exists(candidates[i])
       THEN LET depPath == candidates[i]
                m1 == IF InMap(m, fileName, context)
                      THEN [m EXCEPT !.sc[fileName].dependencies = Append(@, depPath)]
                      ELSE m
            IN loadGrammar(m1, depPath, Undefined)
       ELSE loadDependency(m, fileName, context, depName, i + 1)

\* Tries the candidates from index i on; the first that exists is pushed
\* onto the dependencies and loaded.
loadDependency(m, fileName, context, depName, i) ==
    LET candidates == Candidates(fileName, depName)
    IN IF i > Len(candidates) THEN [Emit(m, "unresolved", depName) EXCEPT !.ret = NoCtx]
       ELSE IF Exists(candidates[i])
            THEN LET depPath == candidates[i]
                     m1 == IF InMap(m, fileName, context)
                           THEN [m EXCEPT !.sc[fileName].dependencies = Append(@, depPath)]
                           ELSE m
                 IN loadGrammar(m1, depPath, Undefined)
            ELSE loadDependency(m, fileName, context, depName, i + 1)

\* for (const dep of newDependencies) { loadDependency; addAsReferenceTo }
LoadDependencies(m, fileName, context, names) ==
    IF names = <<>> THEN m
    ELSE LET m1 == loadDependency(m, fileName, context, Head(names), 1)
             m2 == IF m1.ret # NoCtx
                   THEN Emit(m1, "addAsReferenceTo", <<context, m1.ret>>)
                   ELSE m1
         IN LoadDependencies(m2, fileName, context, Tail(names))

\* parseGrammar that releases the old dependencies before it loads the new
parseGrammarReleaseFirst(m, fileName, context) ==
    LET contextEntry == m.sc[fileName]
        oldDependencies == contextEntry.dependencies
        m1 == Emit([m EXCEPT !.sc[fileName].dependencies = <<>>,
                             !.sc[fileName].hasErrors = HasErrors(contextEntry.source)],
                   "parse", fileName)
        newDependencies == Parse(contextEntry.source)
        m2 == ReleaseAll(m1, oldDependencies)
    IN IF InMap(m2, fileName, context)
       THEN LoadDependencies(m2, fileName, context, newDependencies)
       ELSE m2

\* parseGrammar without contextEntry.dependencies = []
parseGrammarStale(m, fileName, context) ==
    LET contextEntry == m.sc[fileName]
        oldDependencies == contextEntry.dependencies
        m1 == Emit([m EXCEPT !.sc[fileName].hasErrors = HasErrors(contextEntry.source)],
                   "parse", fileName)
        newDependencies == Parse(contextEntry.source)
        m2 == LoadDependencies(m1, fileName, context, newDependencies)
    IN ReleaseAll(m2, oldDependencies)

\* contextEntry is the entry object with this context, registered as fileName
parseGrammar(m, fileName, context) ==
    LET contextEntry == m.sc[fileName]
        oldDependencies == contextEntry.dependencies
        m1 == Emit([m EXCEPT !.sc[fileName].dependencies = <<>>,
                             !.sc[fileName].hasErrors = HasErrors(contextEntry.source)],
                   "parse", fileName)
        newDependencies == Parse(contextEntry.source)
        m2 == LoadDependencies(m1, fileName, context, newDependencies)
    IN ReleaseAll(m2, oldDependencies)

\* getContext that goes through loadGrammar for every name
getContextAlways(m, fileName, source) == loadGrammar(m, fileName, source)

\* AntlrFacade.getContext
getContext(m, fileName, source) ==
    IF fileName \notin DOMAIN m.sc
    THEN loadGrammar(m, fileName, source)
    ELSE [m EXCEPT !.ret = m.sc[fileName].context]

\* setText that parses the text it stores
setTextParsed(m, fileName, source) ==
    IF fileName \in DOMAIN m.sc
    THEN parseGrammar(Emit([m EXCEPT !.sc[fileName].source = source], "setText", fileName),
                      fileName, m.sc[fileName].context)
    ELSE m

\* AntlrFacade.setText: SourceContext.setText stores the text, nothing is parsed
setText(m, fileName, source) ==
    IF fileName \in DOMAIN m.sc
    THEN Emit([m EXCEPT !.sc[fileName].source = source], "setText", fileName)
    ELSE m

\* reparse that loads a grammar that is not in the map
reparseOnDemand(m, fileName) ==
    IF fileName \in DOMAIN m.sc
    THEN parseGrammar(m, fileName, m.sc[fileName].context)
    ELSE loadGrammar(m, fileName, Undefined)

\* AntlrFacade.reparse
reparse(m, fileName) ==
    IF fileName \in DOMAIN m.sc
    THEN parseGrammar(m, fileName, m.sc[fileName].context)
    ELSE m

\* this.sourceContexts.keys.length: keys is the method of Map, not a call of
\* it, and the length of a function is the number of its parameters.
keysLength == 0

\* AntlrFacade.getSelfDiagnostics
getSelfDiagnostics(m) == [contextCount |-> keysLength]

\* SourceContext.fileName: the name the context was constructed with
FileNameOf(context) == context[1]

\* Set.add: a Set keeps its members in the order they were first added
SetAdd(contexts, context) ==
    IF \E i \in DOMAIN contexts : contexts[i] = context THEN contexts
    ELSE Append(contexts, context)

\* new Set()
NoContexts == [contexts |-> <<>>, thrown |-> FALSE]

\* pushDependencyFiles that adds the context of a dependency before it
\* descends into it
RECURSIVE PushEachFirst(_, _, _, _)
PushEachFirst(sc, deps, acc, depth) ==
    IF deps = <<>> \/ acc.thrown \/ depth > Cardinality(DOMAIN sc) THEN acc
    ELSE LET dep == Head(deps)
         IN IF dep \in DOMAIN sc
            THEN LET added == [acc EXCEPT !.contexts = SetAdd(@, sc[dep].context)]
                     inner == PushEachFirst(sc, sc[dep].dependencies, added, depth + 1)
                 IN PushEachFirst(sc, Tail(deps), inner, depth)
            ELSE PushEachFirst(sc, Tail(deps), acc, depth)

pushDependencyFilesFirst(sc, entry, acc, depth) ==
    PushEachFirst(sc, entry.dependencies, acc, depth)

\* AntlrFacade.pushDependencyFiles.  Nothing stops the recursion when a
\* grammar depends on itself: the call then ends with the stack exhausted
\* (thrown).  depth is the number of nested calls; more nested calls than
\* the map has entries can only be such a recursion.
RECURSIVE pushDependencyFiles(_, _, _, _)
RECURSIVE PushEach(_, _, _, _)
PushEach(sc, deps, acc, depth) ==
    IF deps = <<>> \/ acc.thrown THEN acc
    ELSE LET dep == Head(deps)
         IN IF dep \in DOMAIN sc
            THEN LET inner == pushDependencyFiles(sc, sc[dep], acc, depth + 1)
                     added == IF inner.thrown THEN inner
                              ELSE [inner EXCEPT !.contexts = SetAdd(@, sc[dep].context)]
                 IN PushEach(sc, Tail(deps), added, depth)
            ELSE PushEach(sc, Tail(deps), acc, depth)

pushDependencyFiles(sc, entry, acc, depth) ==
    IF depth > Cardinality(DOMAIN sc) THEN [acc EXCEPT !.thrown = TRUE]
    ELSE PushEach(sc, entry.dependencies, acc, depth)

\* AntlrFacade.getDependencies: the file names of the contexts gathered
getDependencies(m, fileName) ==
    IF fileName \notin DOMAIN m.sc THEN [thrown |-> FALSE, result |-> <<>>]
    ELSE LET dependencies == pushDependencyFiles(m.sc, m.sc[fileName], NoContexts, 1)
         IN [thrown |-> dependencies.thrown,
             result |-> IF dependencies.thrown THEN <<>>
                        ELSE [i \in DOMAIN dependencies.contexts |->
                                 FileNameOf(dependencies.contexts[i])]]

\* return context.generate(dependencies, options), unless gathering the
\* dependencies has thrown; m1 is the machine after getContext
Forwarded(m1, dependencies, pend) ==
    [sc |-> m1.sc, context |-> m1.ret, dependencies |-> dependencies.contexts,
     thrown |-> dependencies.thrown, forwarded |-> ~dependencies.thrown,
     pending |-> IF dependencies.thrown THEN pend ELSE pend + 1]

\* const dependencies = new Set(); this.pushDependencyFiles(entry, dependencies)
Gathered(m1, fileName, pend) ==
    Forwarded(m1, pushDependencyFiles(m1.sc, m1.sc[fileName], NoContexts, 1), pend)

\* A generate that is turned down while an earlier one is pending
generateSerialized(m, fileName, pend) ==
    LET m1 == getContext(m, fileName, Undefined)
    IN [sc |-> m1.sc, context |-> m1.ret, dependencies |-> <<>>,
        thrown |-> FALSE, forwarded |-> pend = 0,
        pending |-> IF pend = 0 THEN 1 ELSE pend]

\* AntlrFacade.generate, called while pend earlier calls are pending: the
\* context is resolved (and loaded if need be), its dependencies gathered
\* and context.generate called, whose promise is returned.
generate(m, fileName, pend) ==
    Gathered(getContext(m, fileName, Undefined), fileName, pend)

----------------------------------------------------------------------------
\* The public calls.  net counts a caller's loads against its releases.

\* The machine a public call starts with.
Start ==
    [sc |-> sourceContexts,
     used |-> {sourceContexts[p].context : p \in DOMAIN sourceContexts},
     building |-> {}, log |-> <<>>, ret |-> NoCtx]

Sources(fileName) == {Undefined} \cup {Given(t) : t \in TextsFor(fileName)}

----------------------------------------------------------------------------
\* The automaton (ATN) of the interpreter data and the graph of a rule.
\* Rule a starts in state 1 and owns the states 1, 12 and 103; rule b starts
\* in state 2 and has no transition.  A transition leaves state from for
\* state to; its kind is "eps" (epsilon), "x" (the token x) or the name of
\* a rule (the rule is invoked and to is the state that follows the
\* invocation).

RuleNames == {"a", "b"}

StateNumbers == {1, 12, 103}

StartOf(rule) == IF rule = "a" THEN 1 ELSE 2

TransitionSet == [from : {1, 12}, to : StateNumbers, kind : {"eps", "x", "a", "b"}]

Automata == UNION {[1 .. n -> TransitionSet] : n \in 0 .. MaxTransitions}

\* The automaton of the generated files the facade loads.
GeneratedATN ==
    << [from |-> 1, to |-> 12, kind |-> "b"], [from |-> 12, to |-> 103, kind |-> "x"] >>

\* Number.toString
DigitChars == <<"0", "1", "2", "3", "4", "5", "6", "7", "8", "9">>

RECURSIVE NumberToString(_)
NumberToString(n) ==
    IF n < 10 THEN <<DigitChars[n + 1]>>
    ELSE NumberToString(n \div 10) \o <<DigitChars[(n % 10) + 1]>>

\* The state-type tag of a state: rule start or basic; the tag of the node
\* of an invoked rule.
StateTypeOf(stateNumber) == IF stateNumber \in {1, 2} THEN "RULE_START" ELSE "BASIC"
RuleNodeType == "RULE"

\* The index (from 0) of the node with this id.
IndexOf(nodes, id) == (CHOOSE i \in DOMAIN nodes : nodes[i].id = id) - 1

\* A link for every transition, parallel ones not merged
AddLinkEach(links, source, target, type, label) ==
    Append(links, [source |-> source, target |-> target, type |-> type, labels |-> <<label>>])

\* One link per pair of nodes: a further transition between the same nodes
\* adds its label to the link, unless the link has it.
AddLink(links, source, target, type, label) ==
    IF \E i \in DOMAIN links : links[i].source = source /\ links[i].target = target
    THEN [i \in DOMAIN links |->
             IF links[i].source = source /\ links[i].target = target
                /\ \A k \in DOMAIN links[i].labels : links[i].labels[k] # label
             THEN [links[i] EXCEPT !.labels = Append(@, label)]
             ELSE links[i]]
    ELSE Append(links, [source |-> source, target |-> target, type |-> type,
                        labels |-> <<label>>])

\* A state reached for the first time becomes a node and is queued.
Visit(g, stateNumber) ==
    IF stateNumber \in g.seen THEN g
    ELSE [g EXCEPT !.nodes = Append(@, [id |-> stateNumber, name |-> NumberToString(stateNumber),
                                        type |-> StateTypeOf(stateNumber)]),
                   !.seen = @ \cup {stateNumber},
                   !.queue = Append(@, stateNumber)]

\* Every invocation takes the same placeholder number
FollowSame(g, t) ==
    LET g1 == [g EXCEPT !.nodes = Append(@, [id |-> -1, name |-> <<t.kind>>,
                                             type |-> RuleNodeType])]
        placeholder == Len(g1.nodes) - 1
        g2 == Visit(g1, t.to)
    IN IF t.kind \in RuleNames
       THEN [g2 EXCEPT !.links =
               AddLink(AddLink(@, IndexOf(g2.nodes, t.from), placeholder, "rule", t.kind),
                       placeholder, IndexOf(g2.nodes, t.to), "epsilon", "eps")]
       ELSE LET g3 == Visit(g, t.to)
            IN [g3 EXCEPT !.links = AddLink(@, IndexOf(g3.nodes, t.from),
                                            IndexOf(g3.nodes, t.to), t.kind, t.kind)]

\* One transition of a visited state.  An invoked rule is not entered: it
\* becomes a node of its own with the next negative id and the name of the
\* rule, linked from the invoking state and to the state that follows.
Follow(g, t) ==
    IF t.kind \in RuleNames
    THEN LET id == 0 - (Cardinality({i \in DOMAIN g.nodes : g.nodes[i].id < 0}) + 1)
             g1 == [g EXCEPT !.nodes = Append(@, [id |-> id, name |-> <<t.kind>>,
                                                  type |-> RuleNodeType])]
             placeholder == Len(g1.nodes) - 1
             g2 == Visit(g1, t.to)
         IN [g2 EXCEPT !.links =
               AddLink(AddLink(@, IndexOf(g2.nodes, t.from), placeholder, "rule", t.kind),
                       placeholder, IndexOf(g2.nodes, t.to), "epsilon", "eps")]
    ELSE LET g1 == Visit(g, t.to)
         IN [g1 EXCEPT !.links = AddLink(@, IndexOf(g1.nodes, t.from),
                                         IndexOf(g1.nodes, t.to), t.kind, t.kind)]

RECURSIVE FollowAll(_, _)
FollowAll(g, ts) == IF ts = <<>> THEN g ELSE FollowAll(Follow(g, Head(ts)), Tail(ts))

\* Breadth first from the start state of the rule.
RECURSIVE Traverse(_, _)
Traverse(g, a) ==
    IF g.queue = <<>> THEN g
    ELSE LET stateNumber == Head(g.queue)
         IN Traverse(FollowAll([g EXCEPT !.queue = Tail(@)],
                               SelectSeq(a, LAMBDA t : t.from = stateNumber)), a)

\* The graph of a rule of the automaton a.
ExtractGraph(a, rule) ==
    LET g0 == Visit([nodes |-> <<>>, links |-> <<>>, seen |-> {}, queue |-> <<>>], StartOf(rule))
        g  == Traverse(g0, IF rule = "a" THEN a ELSE <<>>)
    IN [nodes |-> g.nodes, links |-> g.links]

----------------------------------------------------------------------------
\* The formatter (SourceContext.formatGrammar).  A grammar text is here a
\* sequence of characters: "a" (a letter of a word), ";" (the end of a
\* top-level element), " " and "\n" (white space; the texts the editor
\* hands over have blanks, the formatter breaks lines).  Offsets count from
\* 0 and a bounds pair names its first and its last character.

Chars == {"a", ";", " "}

SourceTexts == UNION {[1 .. n -> Chars] : n \in 0 .. MaxText}

\* FormattingOptions: the empty lines between two elements.
FormattingOptions == [minEmptyLines : {0, 1}]

\* The offsets a caller asks for: inside the text, before it and behind it.
Offsets == (0 - MaxOutside) .. (MaxText + MaxOutside)

\* White space that is the blank only
IsBlank(c) == c = " "

IsSpace(c) == c \in {" ", "\n"}

\* The last position of the word that starts at position i.
RECURSIVE WordEnd(_, _)
WordEnd(chars, i) ==
    IF i < Len(chars) /\ ~IsSpace(chars[i + 1]) /\ chars[i + 1] # ";"
    THEN WordEnd(chars, i + 1) ELSE i

\* The tokens of the text from position i on, white space left out; each
\* with the offsets of its first and of its last character.
RECURSIVE Tokens(_, _)
Tokens(chars, i) ==
    IF i > Len(chars) THEN <<>>
    ELSE IF IsSpace(chars[i]) THEN Tokens(chars, i + 1)
    ELSE LET j == IF chars[i] = ";" THEN i ELSE WordEnd(chars, i)
         IN <<[start |-> i - 1, stop |-> j - 1, text |-> SubSeq(chars, i, j)]>>
            \o Tokens(chars, j + 1)

IsEnd(token) == token.text = <<";">>

\* A range is widened to whole elements: back to the first token of the
\* element of token k, on to the last token of it
ElementStartNone(tokens, k) == k

RECURSIVE ElementStart(_, _)
ElementStart(tokens, k) ==
    IF k = 1 \/ IsEnd(tokens[k - 1]) THEN k ELSE ElementStart(tokens, k - 1)

RECURSIVE ElementStop(_, _)
ElementStop(tokens, k) ==
    IF k = Len(tokens) \/ IsEnd(tokens[k]) THEN k ELSE ElementStop(tokens, k + 1)

\* The line breaks between two elements
Separator(options) == [i \in 1 .. options.minEmptyLines + 1 |-> "\n"]

\* The tokens i .. j laid out: the words of an element one blank apart, the
\* ";" right behind the last word, the elements on lines of their own.
RECURSIVE Layout(_, _, _, _)
Layout(tokens, i, j, options) ==
    IF i > j THEN <<>>
    ELSE IF i = j THEN tokens[i].text
    ELSE tokens[i].text
         \o (IF IsEnd(tokens[i]) THEN Separator(options)
             ELSE IF IsEnd(tokens[i + 1]) THEN <<>> ELSE <<" ">>)
         \o Layout(tokens, i + 1, j, options)

\* The first token that ends at or behind the offset (the last token when
\* there is none) and the last token that starts at or before it (the first
\* token when there is none).
TokenFrom(tokens, offset) ==
    LET behind == {k \in DOMAIN tokens : tokens[k].stop >= offset}
    IN IF behind = {} THEN Len(tokens) ELSE Min(behind)

TokenUpTo(tokens, offset) ==
    LET before == {k \in DOMAIN tokens : tokens[k].start <= offset}
    IN IF before = {} THEN 1 ELSE CHOOSE k \in before : \A l \in before : l <= k

\* A range that lies before the text or behind it
Outside(chars, start, stop) ==
    (start < 0 /\ stop < 0) \/ (start >= Len(chars) /\ stop >= Len(chars))

\* An answer for a range outside the text that follows the request
OutsideResultEcho(tokens, start, stop) ==
    [text |-> <<>>, start |-> start, stop |-> start]

\* The answer for a range outside the text: no text, and the bounds of the
\* first token, whatever was asked for.
OutsideResult(tokens, start, stop) ==
    [text |-> <<>>, start |-> tokens[1].start, stop |-> tokens[1].stop]

\* SourceContext.formatGrammar(options, start, stop): [text, start, stop]
contextFormatGrammar(chars, options, start, stop) ==
    LET tokens == Tokens(chars, 1)
    IN IF tokens = <<>> THEN [text |-> <<>>, start |-> 0, stop |-> 0]
       ELSE IF Outside(chars, start, stop) THEN OutsideResult(tokens, start, stop)
       ELSE LET from == TokenFrom(tokens, IF start <= stop THEN start ELSE stop)
                upTo == TokenUpTo(tokens, IF start <= stop THEN stop ELSE start)
                first == ElementStart(tokens, IF from <= upTo THEN from ELSE upTo)
                last  == ElementStop(tokens, IF from <= upTo THEN upTo ELSE from)
            IN [text |-> Layout(tokens, first, last, options),
                start |-> tokens[first].start, stop |-> tokens[last].stop]

----------------------------------------------------------------------------
\* AntlrFacade.generateSentence and createDebugger

\* The sentences a generation produces at most
MaxSentences == 1

\* The grammars whose interpreter data files can be in the data folder.
DataFiles == SUBSET {pA, pB, pCi}

\* dependency.hasErrors, for a context of the map
ContextHasErrors(sc, context) == sc[FileNameOf(context)].hasErrors

\* for (const dependency of dependencies): return at the first with errors;
\* setupInterpreters for one without interpreter data, which loads the data
\* when the files are there.  setup lists the contexts set up, in order.
RECURSIVE SetupEach(_, _, _, _)
SetupEach(sc, contexts, data, files) ==
    IF contexts = <<>> THEN [failed |-> FALSE, data |-> data, setup |-> <<>>]
    ELSE LET dependency == Head(contexts)
         IN IF ContextHasErrors(sc, dependency)
            THEN [failed |-> TRUE, data |-> data, setup |-> <<>>]
            ELSE LET loaded == dependency \in data
                     data1 == IF ~loaded /\ FileNameOf(dependency) \in files
                              THEN data \cup {dependency} ELSE data
                     rest == SetupEach(sc, Tail(contexts), data1, files)
                 IN [rest EXCEPT !.setup = (IF loaded THEN <<>> ELSE <<dependency>>) \o @]

FixErrorsFirst == [sentence |-> "[Fix grammar errors first]", index |-> 0]

\* SourceContext.generateSentence: the callback is called once for each
\* sentence, with its index
contextGenerateSentence(count) == [i \in 1 .. count |-> [sentence |-> "s", index |-> i - 1]]

\* generateSentence from the loop on: m1 is the facade after getContext,
\* dependencies what pushDependencyFiles gathered.
ForwardedSentence(m1, dependencies, data, files, count) ==
    IF dependencies.thrown
    THEN [sc |-> m1.sc, context |-> m1.ret, thrown |-> TRUE, dependencies |-> <<>>,
          callbacks |-> <<>>, started |-> FALSE, setup |-> <<>>, data |-> data]
    ELSE LET r == SetupEach(m1.sc, dependencies.contexts, data, files)
         IN [sc |-> m1.sc, context |-> m1.ret, thrown |-> FALSE,
             dependencies |-> dependencies.contexts,
             callbacks |-> IF r.failed THEN <<FixErrorsFirst>>
                           ELSE contextGenerateSentence(count),
             started |-> ~r.failed, setup |-> r.setup, data |-> r.data]

GatheredSentence(m1, fileName, data, files, count) ==
    ForwardedSentence(m1, pushDependencyFiles(m1.sc, m1.sc[fileName], NoContexts, 1),
                      data, files, count)

\* AntlrFacade.generateSentence
generateSentence(m, fileName, data, files, count) ==
    GatheredSentence(getContext(m, fileName, Undefined), fileName, data, files, count)

\* createDebugger has returned nothing yet, or undefined: a debugger has
\* contexts
NoDebugger == [thrown |-> FALSE, contexts |-> <<>>]

\* createDebugger from the loop on: contexts is the set with the context of
\* the grammar and what pushDependencyFiles added to it.
ForwardedDebugger(m1, contexts, data, files) ==
    IF contexts.thrown
    THEN [sc |-> m1.sc, context |-> m1.ret, thrown |-> TRUE, contexts |-> <<>>,
          setup |-> <<>>, data |-> data]
    ELSE LET r == SetupEach(m1.sc, contexts.contexts, data, files)
         IN [sc |-> m1.sc, context |-> m1.ret, thrown |-> FALSE,
             contexts |-> IF r.failed THEN <<>> ELSE contexts.contexts,
             setup |-> r.setup, data |-> r.data]

GatheredDebugger(m1, fileName, data, files) ==
    ForwardedDebugger(m1,
                      pushDependencyFiles(m1.sc, m1.sc[fileName],
                                          [contexts |-> <<m1.ret>>, thrown |-> FALSE], 1),
                      data, files)

\* AntlrFacade.createDebugger
createDebugger(m, fileName, data, files) ==
    GatheredDebugger(getContext(m, fileName, Undefined), fileName, data, files)

----------------------------------------------------------------------------
\* AntlrTreeDataProvider

\* The refresh calls of a run
MaxRefresh == 4

\* refresh(undefined)
NoDocument == [fileName |-> Undefined, languageId |-> "", scheme |-> ""]

\* The documents of the editor: TextDocument.fileName, languageId, uri.scheme
Documents ==
    {NoDocument} \cup
    [fileName : {pA, pN}, languageId : {"antlr", "plaintext"}, scheme : {"file", "untitled"}]

\* The test of refresh without the scheme
QualifiesAnyScheme(document) ==
    document # NoDocument /\ document.languageId = "antlr"

\* document && document.languageId === "antlr" && document.uri.scheme === "file"
Qualifies(document) ==
    document # NoDocument /\ document.languageId = "antlr" /\ document.scheme = "file"

\* refresh that fires the event only when currentFile has changed
refreshOnChange(current, document) ==
    LET assigned == IF Qualifies(document) THEN document.fileName ELSE Undefined
    IN [currentFile |-> assigned,
        fired |-> IF assigned = current THEN <<>> ELSE <<assigned>>]

\* AntlrTreeDataProvider.refresh: the assignment, then changeEvent.fire().
\* fired lists, for each call of the listeners, the currentFile they find.
refresh(current, document) ==
    LET assigned == IF Qualifies(document) THEN document.fileName ELSE Undefined
    IN [currentFile |-> assigned, fired |-> <<assigned>>]

----------------------------------------------------------------------------
\* The position helpers: positionToIndex and indexToPosition

\* The length of a text given to the helpers
MaxChars == 4

PositionChars == {"a", "\t", "\n"}

PositionTexts == UNION {[1 .. n -> PositionChars] : n \in 0 .. MaxChars}

\* switch (text[i]): a newline starts the next row, a tab goes to the next
\* multiple of 4, any other character is one column wide
AfterChar(c, column, row) ==
    IF c = "\n" THEN <<0, row + 1>>
    ELSE IF c = "\t" THEN <<column + (4 - (column % 4)), row>>
    ELSE <<column + 1, row>>

\* positionToIndex that takes the first index with the column, in any row
RECURSIVE FindColumn(_, _, _, _, _, _)
FindColumn(chars, column, row, i, currentColumn, currentRow) ==
    IF i >= Len(chars) THEN Len(chars)
    ELSE IF currentColumn = column THEN i
    ELSE LET next == AfterChar(chars[i + 1], currentColumn, currentRow)
         IN FindColumn(chars, column, row, i + 1, next[1], next[2])

positionToIndexAnyRow(chars, column, row) == FindColumn(chars, column, row, 0, 0, 1)

\* The loop of positionToIndex from the index i on (indices from 0)
RECURSIVE Find(_, _, _, _, _, _)
Find(chars, column, row, i, currentColumn, currentRow) ==
    IF i >= Len(chars) THEN Len(chars)
    ELSE IF row < currentRow THEN i - 1
    ELSE IF currentRow = row /\ currentColumn = column THEN i
    ELSE LET next == AfterChar(chars[i + 1], currentColumn, currentRow)
         IN Find(chars, column, row, i + 1, next[1], next[2])

positionToIndex(chars, column, row) == Find(chars, column, row, 0, 0, 1)

\* The loop of indexToPosition from the index i on
RECURSIVE Scan(_, _, _, _, _)
Scan(chars, index, i, currentColumn, currentRow) ==
    IF i >= Len(chars) \/ i = index THEN <<currentColumn, currentRow>>
    ELSE LET next == AfterChar(chars[i + 1], currentColumn, currentRow)
         IN Scan(chars, index, i + 1, next[1], next[2])

\* [column, row] of the index
indexToPosition(chars, index) == Scan(chars, index, 0, 0, 1)

\* indexToPosition has returned nothing yet
NoPosition == <<>>

\* formatGrammar has returned nothing yet
NoFormat == <<>>

\* getATNGraph has returned nothing yet, or undefined
NoGraph == <<>>

\* SourceContext.getATNGraph: nothing for a grammar with errors and for a
\* context that holds no interpreter data.
contextGetATNGraph(hasErrors, hasData, a, rule) ==
    IF hasErrors \/ ~hasData THEN NoGraph ELSE ExtractGraph(a, rule)

\* return context.getATNGraph(rule); m1 is the machine after getContext and
\* m1.ret the context it returned
ForwardedATNGraph(m1, fileName, rule, data, a) ==
    [sc |-> m1.sc,
     graph |-> contextGetATNGraph(InMap(m1, fileName, m1.ret) /\ m1.sc[fileName].hasErrors,
                                  m1.ret \in data, a, rule)]

\* getATNGraph that is content with the data of any context
getATNGraphAny(m, fileName, rule, data, a) ==
    ForwardedATNGraph(getContext(m, fileName, Undefined), fileName, rule,
                      IF data = {} THEN {} ELSE data \cup {<<fileName, n>> : n \in Serials}, a)

\* AntlrFacade.getATNGraph; data are the contexts that hold interpreter
\* data, a is the automaton of that data.
getATNGraph(m, fileName, rule, data, a) ==
    ForwardedATNGraph(getContext(m, fileName, Undefined), fileName, rule, data, a)

\* A context that leaves the map is no longer reachable, and the interpreter
\* data it holds goes with it; no call touches the automaton of the data or
\* returns a graph but those named below.
Forget ==
    /\ interpreter' = interpreter \cap {sourceContexts'[p].context : p \in DOMAIN sourceContexts'}
    /\ UNCHANGED <<atn, graph, grammarText, formatted, callbacks, debugger, currentFile,
                   notified, position>>

\* new AntlrFacade(dir)
Construct(dir, automaton, chars) ==
    /\ sourceContexts = << >>
    /\ importDir = dir
    /\ pending = [p \in PublicPaths |-> 0]
    /\ interpreter = {}
    /\ atn = automaton
    /\ graph = NoGraph
    /\ grammarText = chars
    /\ formatted = NoFormat
    /\ callbacks = <<>>
    /\ debugger = NoDebugger
    /\ currentFile = Undefined
    /\ notified = <<>>
    /\ position = NoPosition
    /\ net = [p \in PublicPaths |-> 0]
    /\ everOver = FALSE

Init == Construct(relativeDir, GeneratedATN, <<>>)

LoadGrammar(fileName, source) ==
    /\ net[fileName] < MaxHeld
    /\ sourceContexts' = loadGrammar(Start, fileName, source).sc
    /\ net' = [net EXCEPT ![fileName] = @ + 1]
    /\ Forget
    /\ UNCHANGED <<importDir, pending, everOver>>

ReleaseGrammar(fileName) ==
    /\ net[fileName] > -MaxOver
    /\ sourceContexts' = releaseGrammar(Start, fileName).sc
    /\ net' = [net EXCEPT ![fileName] = @ - 1]
    /\ everOver' = (everOver \/ net[fileName] <= 0)
    /\ Forget
    /\ UNCHANGED <<importDir, pending>>

SetText(fileName, source) ==
    /\ sourceContexts' = setText(Start, fileName, source).sc
    /\ Forget
    /\ UNCHANGED <<importDir, pending, net, everOver>>

Reparse(fileName) ==
    /\ sourceContexts' = reparse(Start, fileName).sc
    /\ Forget
    /\ UNCHANGED <<importDir, pending, net, everOver>>

\* Any of the query methods (symbolInfoAtPosition, getDiagnostics, ...,
\* formatGrammar): const context = this.getContext(fileName), then a read of
\* that context.  A query that loads the grammar is one more loadGrammar call.
Query(fileName) ==
    /\ fileName \in DOMAIN sourceContexts \/ net[fileName] < MaxHeld
    /\ sourceContexts' = getContext(Start, fileName, Undefined).sc
    /\ net' = IF fileName \in DOMAIN sourceContexts THEN net
              ELSE [net EXCEPT ![fileName] = @ + 1]
    /\ Forget
    /\ UNCHANGED <<importDir, pending, everOver>>

Next ==
    \/ \E f \in PublicPaths : \E s \in Sources(f) : LoadGrammar(f, s)
    \/ \E f \in PublicPaths : ReleaseGrammar(f)
    \/ \E f \in PublicPaths : \E s \in TextsFor(f) : SetText(f, s)
    \/ \E f \in PublicPaths : Reparse(f)
    \/ \E f \in PublicPaths : Query(f)

Spec == Init /\ [][Next]_vars

\* The calls of an editor that makes no query: loadGrammar, releaseGrammar,
\* setText and reparse only.
NextEditing ==
    \/ \E f \in PublicPaths : \E s \in Sources(f) : LoadGrammar(f, s)
    \/ \E f \in PublicPaths : ReleaseGrammar(f)
    \/ \E f \in PublicPaths : \E s \in TextsFor(f) : SetText(f, s)
    \/ \E f \in PublicPaths : Reparse(f)

SpecEditing == Init /\ [][NextEditing]_vars

\* await backend.generate(fileName, options)
Generate(fileName) ==
    /\ pending[fileName] < MaxPending
    /\ fileName \in DOMAIN sourceContexts \/ net[fileName] < MaxHeld
    /\ \E g \in {generate(Start, fileName, pending[fileName])} :
          /\ sourceContexts' = g.sc
          /\ pending' = [pending EXCEPT ![fileName] = g.pending]
    /\ net' = IF fileName \in DOMAIN sourceContexts THEN net
              ELSE [net EXCEPT ![fileName] = @ + 1]
    /\ Forget
    /\ UNCHANGED <<importDir, everOver>>

\* The promise of a pending generate call settles.
Settle(fileName) ==
    /\ pending[fileName] > 0
    /\ pending' = [pending EXCEPT ![fileName] = @ - 1]
    /\ UNCHANGED <<sourceContexts, importDir, interpreter, atn, graph, grammarText, formatted,
                   callbacks, debugger, currentFile, notified, position,
                   net, everOver>>

\* Loads, releases and generations, the generations overlapping.
NextGenerate ==
    \/ \E f \in PublicPaths : \E s \in Sources(f) : LoadGrammar(f, s)
    \/ \E f \in PublicPaths : ReleaseGrammar(f)
    \/ \E f \in PublicPaths : Generate(f)
    \/ \E f \in PublicPaths : Settle(f)

SpecGenerate == Init /\ [][NextGenerate]_vars

\* The texts the callers of the interpreter supply: none, or one with a
\* syntax error.
SourcesATN == {Undefined, Given(<<"?">>)}

\* await generate(fileName, {loadOnly: true}): the call and the settling of
\* its promise.  The context of fileName, and no other, takes the
\* interpreter data of the generated files when there are any (found).
GenerateLoadOnly(fileName, found) ==
    /\ fileName \in DOMAIN sourceContexts \/ net[fileName] < MaxHeld
    /\ \E g \in {generate(Start, fileName, pending[fileName])} :
          /\ sourceContexts' = g.sc
          /\ interpreter' = (IF found /\ ~g.thrown THEN interpreter \cup {g.context}
                             ELSE interpreter)
                                \cap {g.sc[p].context : p \in DOMAIN g.sc}
    /\ net' = IF fileName \in DOMAIN sourceContexts THEN net
              ELSE [net EXCEPT ![fileName] = @ + 1]
    /\ UNCHANGED <<importDir, pending, atn, graph, grammarText, formatted,
                   callbacks, debugger, currentFile, notified, position, everOver>>

GetATNGraph(fileName, rule) ==
    /\ fileName \in DOMAIN sourceContexts \/ net[fileName] < MaxHeld
    /\ \E r \in {getATNGraph(Start, fileName, rule, interpreter, atn)} :
          /\ sourceContexts' = r.sc
          /\ graph' = r.graph
          /\ interpreter' = interpreter \cap {r.sc[p].context : p \in DOMAIN r.sc}
    /\ net' = IF fileName \in DOMAIN sourceContexts THEN net
              ELSE [net EXCEPT ![fileName] = @ + 1]
    /\ UNCHANGED <<importDir, pending, atn, grammarText, formatted,
                   callbacks, debugger, currentFile, notified, position, everOver>>

\* The calls of a client that shows the automaton of a rule.
NextATN ==
    \/ \E fileName \in PublicPaths, source \in SourcesATN : LoadGrammar(fileName, source)
    \/ \E fileName \in PublicPaths : ReleaseGrammar(fileName)
    \/ \E fileName \in PublicPaths, found \in BOOLEAN : GenerateLoadOnly(fileName, found)
    \/ \E fileName \in PublicPaths, rule \in RuleNames : GetATNGraph(fileName, rule)

SpecATN == Init /\ [][NextATN]_vars

\* The graph of a rule, for every automaton the data can hold.
Extract(rule) ==
    /\ graph' = ExtractGraph(atn, rule)
    /\ UNCHANGED <<sourceContexts, importDir, pending, interpreter, atn, grammarText, formatted,
                   callbacks, debugger, currentFile, notified, position,
                   net, everOver>>

InitExtract == \E a \in Automata : Construct(relativeDir, a, <<>>)

NextExtract == \E rule \in RuleNames : Extract(rule)

SpecExtract == InitExtract /\ [][NextExtract]_vars

\* formatGrammar of the text the context holds.
Format(options, start, stop) ==
    /\ formatted' = contextFormatGrammar(grammarText, options, start, stop)
    /\ UNCHANGED <<sourceContexts, importDir, pending, interpreter, atn, graph, grammarText,
                   callbacks, debugger, currentFile, notified, position, net, everOver>>

\* The texts the callers of the sentence generator and of the debugger
\* supply: none, one with a syntax error, and texts that name B, with and
\* without an error.
SourcesRun == {Undefined, Given(<<"?">>), Given(<<"B">>), Given(<<"B", "?">>)}

GenerateSentence(fileName, files, count) ==
    /\ fileName \in DOMAIN sourceContexts \/ net[fileName] < MaxHeld
    /\ \E r \in {generateSentence(Start, fileName, interpreter, files, count)} :
          /\ sourceContexts' = r.sc
          /\ callbacks' = r.callbacks
          /\ interpreter' = r.data \cap {r.sc[p].context : p \in DOMAIN r.sc}
    /\ net' = IF fileName \in DOMAIN sourceContexts THEN net
              ELSE [net EXCEPT ![fileName] = @ + 1]
    /\ UNCHANGED <<importDir, pending, atn, graph, grammarText, formatted, debugger,
                   currentFile, notified, position, everOver>>

CreateDebugger(fileName, files) ==
    /\ fileName \in DOMAIN sourceContexts \/ net[fileName] < MaxHeld
    /\ \E r \in {createDebugger(Start, fileName, interpreter, files)} :
          /\ sourceContexts' = r.sc
          /\ debugger' = [thrown |-> r.thrown, contexts |-> r.contexts]
          /\ interpreter' = r.data \cap {r.sc[p].context : p \in DOMAIN r.sc}
    /\ net' = IF fileName \in DOMAIN sourceContexts THEN net
              ELSE [net EXCEPT ![fileName] = @ + 1]
    /\ UNCHANGED <<importDir, pending, atn, graph, grammarText, formatted, callbacks,
                   currentFile, notified, position, everOver>>

\* The calls of a client that generates sentences and debugs.
NextRun ==
    \/ \E fileName \in PublicPaths, source \in SourcesRun : LoadGrammar(fileName, source)
    \/ \E fileName \in PublicPaths : ReleaseGrammar(fileName)
    \/ \E fileName \in PublicPaths, files \in DataFiles, count \in 0 .. MaxSentences :
          GenerateSentence(fileName, files, count)
    \/ \E fileName \in PublicPaths, files \in DataFiles : CreateDebugger(fileName, files)

SpecRun == Init /\ [][NextRun]_vars

\* provider.refresh(document); notified is what the listeners of
\* onDidChangeTreeData have seen since the provider was made.
Refresh(document) ==
    /\ Len(notified) < MaxRefresh
    /\ \E r \in {refresh(currentFile, document)} :
          /\ currentFile' = r.currentFile
          /\ notified' = notified \o r.fired
    /\ UNCHANGED <<sourceContexts, importDir, pending, interpreter, atn, graph, grammarText,
                   formatted, callbacks, debugger, position, net, everOver>>

NextTree == \E document \in Documents : Refresh(document)

SpecTree == Init /\ [][NextTree]_vars

\* indexToPosition(text, index) for a valid index of the text
ToPosition(index) ==
    /\ index <= Len(grammarText)
    /\ position' = indexToPosition(grammarText, index)
    /\ UNCHANGED <<sourceContexts, importDir, pending, interpreter, atn, graph, grammarText,
                   formatted, callbacks, debugger, currentFile, notified, net, everOver>>

InitPosition == \E chars \in PositionTexts : Construct(relativeDir, GeneratedATN, chars)

NextPosition == \E index \in 0 .. MaxChars : ToPosition(index)

SpecPosition == InitPosition /\ [][NextPosition]_vars

InitFormat == \E chars \in SourceTexts : Construct(relativeDir, GeneratedATN, chars)

NextFormat ==
    \E options \in FormattingOptions, start, stop \in Offsets : Format(options, start, stop)

SpecFormat == InitFormat /\ [][NextFormat]_vars

\* The same calls on a facade constructed with either import folder.
InitImportDir == \E dir \in ImportDirs : Construct(dir, GeneratedATN, <<>>)

SpecImportDir == InitImportDir /\ [][Next]_vars

----------------------------------------------------------------------------
\* Properties.  A property of one call is stated of the call made in every
\* reachable state, for every file name and every text.

\* The file names a call is made with: those of the callers, every file on
\* disk and one file that does not exist.
Paths == PublicPaths \cup DOMAIN Disk \cup {pN}

Range(seq) == {seq[i] : i \in DOMAIN seq}

\* How often x occurs in seq.
Occ(seq, x) == Cardinality({i \in DOMAIN seq : seq[i] = x})

\* How often the dependencies lists of the entries S of sc name p.
RECURSIVE RefsOver(_, _, _)
RefsOver(sc, S, p) ==
    IF S = {} THEN 0
    ELSE LET q == CHOOSE y \in S : TRUE
         IN Occ(sc[q].dependencies, p) + RefsOver(sc, S \ {q}, p)

RefsIn(sc, p) == RefsOver(sc, DOMAIN sc, p)

\* The map before event i of a call that started with the map sc.
Before(sc, lg, i) == IF i = 1 THEN sc ELSE lg[i - 1].sc

\* P holds of every public call made in the current state.
EveryCall(P(_)) ==
    \A f \in Paths :
        /\ \A s \in Sources(f) : P(loadGrammar(Start, f, s))
        /\ P(releaseGrammar(Start, f))
        /\ \A t \in TextsFor(f) : P(setText(Start, f, t))
        /\ P(reparse(Start, f))
        /\ P(getContext(Start, f, Undefined))

\* C1: loadGrammar of a name that is in the map returns the context of the
\* entry (the one the load that made the entry returned), adds exactly one
\* to its refCount, changes nothing else, makes no entry and runs no parse.
C1_LoadExisting ==
    \A f \in DOMAIN sourceContexts : \A s \in Sources(f) :
        LET m == loadGrammar(Start, f, s)
        IN /\ m.ret = sourceContexts[f].context
           /\ m.sc = [sourceContexts EXCEPT ![f].refCount = @ + 1]
           /\ \A i \in DOMAIN m.log : m.log[i].kind \notin {"new", "parse", "read"}

\* A name was loaded twice and is in the map with both references.
C1_Witness ==
    \E f \in PublicPaths :
        /\ ~everOver /\ net[f] = 2
        /\ f \in DOMAIN sourceContexts /\ sourceContexts[f].refCount >= 2

\* C2: while loadGrammar(name) was called more often than
\* releaseGrammar(name), the entry of name is in the map and keeps its
\* context; an entry leaves the map only in the release that brings its
\* refCount to zero.
C2_HeldStays ==
    /\ [](EveryCall(LAMBDA m : \A i \in DOMAIN m.log :
              LET e == m.log[i]
                  gone == DOMAIN Before(sourceContexts, m.log, i) \ DOMAIN e.sc
              IN /\ gone \subseteq (IF e.kind = "release" /\ e.count = 0
                                     THEN {e.what} ELSE {})
                 /\ (e.kind = "release" /\ e.count = 0) => e.what \in gone))
    /\ [][\A f \in PublicPaths :
            /\ net'[f] > 0 => f \in DOMAIN sourceContexts'
            /\ (net[f] > 0 /\ net'[f] > 0) =>
                   sourceContexts'[f].context = sourceContexts[f].context]_vars

\* After two loads of a name, one release leaves the entry and its context.
C2_Witness ==
    \E f \in PublicPaths :
        /\ net[f] = 2 /\ f \in DOMAIN sourceContexts
        /\ LET m == releaseGrammar(Start, f)
           IN /\ f \in DOMAIN m.sc
              /\ m.sc[f].context = sourceContexts[f].context
              /\ m.sc[f].refCount = sourceContexts[f].refCount - 1

\* C3: no refCount is ever negative; between the public calls every entry
\* of the map has refCount > 0; during a call an entry of the map has
\* refCount 0 only while the loadGrammar that made it has not finished.
C3_RefCounts ==
    /\ \A p \in DOMAIN sourceContexts : sourceContexts[p].refCount > 0
    /\ EveryCall(LAMBDA m : \A i \in DOMAIN m.log :
          LET e == m.log[i]
          IN /\ e.count >= 0
             /\ \A p \in DOMAIN e.sc :
                   /\ e.sc[p].refCount >= 0
                   /\ e.sc[p].refCount = 0 => p \in e.building)

\* A load into a map that holds other grammars: the new entry has refCount
\* 0 during its first parse and a positive one when the load returns.
C3_Witness ==
    /\ sourceContexts # << >>
    /\ \E f \in Paths \ DOMAIN sourceContexts :
          LET m == loadGrammar(Start, f, Undefined)
          IN /\ \E i \in DOMAIN m.log :
                   f \in DOMAIN m.log[i].sc /\ m.log[i].sc[f].refCount = 0
             /\ m.sc[f].refCount > 0

\* The dependencies of the entry g that are themselves in the map.
LiveDeps(sc, g) == (Range(sc[g].dependencies) \cap DOMAIN sc) \ {g}

\* What is left of the refCount of d when the references of the entries
\* that a call removed are taken off.
Rest(sc, m, d) == sc[d].refCount - RefsOver(sc, DOMAIN sc \ DOMAIN m.sc, d)

\* C4 as claimed: when releaseGrammar(g) brings the refCount of g to zero, a
\* dependency of g that stays in the map keeps its context and loses only
\* the references of g itself; a dependency with an unreleased load stays.
C4_Original ==
    \A g \in DOMAIN sourceContexts :
        sourceContexts[g].refCount = 1 =>
            LET m == releaseGrammar(Start, g)
            IN \A d \in LiveDeps(sourceContexts, g) :
                  /\ (d \in PublicPaths /\ net[d] > 0) => d \in DOMAIN m.sc
                  /\ d \in DOMAIN m.sc =>
                        /\ m.sc[d].context = sourceContexts[d].context
                        /\ m.sc[d].refCount = sourceContexts[d].refCount
                              - Occ(sourceContexts[g].dependencies, d)

\* C4, amended: when releaseGrammar(g) brings the refCount of g to zero, g
\* is removed; a dependency of g is removed exactly if its refCount counts
\* only references of g and of the grammars removed with g; otherwise it
\* stays with its context and loses exactly those references; a dependency
\* with an unreleased load stays.
C4_ReleaseDependencies ==
    \A g \in DOMAIN sourceContexts :
        sourceContexts[g].refCount = 1 =>
            LET m == releaseGrammar(Start, g)
            IN /\ g \notin DOMAIN m.sc
               /\ DOMAIN m.sc \subseteq DOMAIN sourceContexts
               /\ \A d \in LiveDeps(sourceContexts, g) :
                     /\ (d \in PublicPaths /\ net[d] > 0) => d \in DOMAIN m.sc
                     /\ IF Rest(sourceContexts, m, d) <= 0
                        THEN d \notin DOMAIN m.sc
                        ELSE /\ d \in DOMAIN m.sc
                             /\ m.sc[d].context = sourceContexts[d].context
                             /\ m.sc[d].refCount = Rest(sourceContexts, m, d)

\* B is loaded by a caller and is a dependency of A and of C; the release of
\* A removes A and C and leaves B with two references fewer.
C4_Witness ==
    /\ {pA, pB, pCi} \subseteq DOMAIN sourceContexts
    /\ net[pB] > 0 /\ sourceContexts[pA].refCount = 1
    /\ sourceContexts[pA].dependencies = <<pB, pCi>>
    /\ LET m == releaseGrammar(Start, pA)
       IN /\ DOMAIN m.sc = {pB}
          /\ m.sc[pB].refCount = sourceContexts[pB].refCount - 2

\* C5 as claimed: in every reachable state every path in a dependencies
\* list of an entry of the map is a key of the map.
C5_Original ==
    \A p \in DOMAIN sourceContexts :
        Range(sourceContexts[p].dependencies) \subseteq DOMAIN sourceContexts

\* C5, amended: as long as no releaseGrammar(name) was called more often
\* than loadGrammar(name), every path in a dependencies list of an entry of
\* the map is a key of the map.
C5_DependenciesLive == ~everOver => C5_Original

\* B is loaded by a caller and is a dependency of A: the caller's release of
\* B leaves it in the map.
C5_Witness ==
    /\ ~everOver /\ net[pB] = 1
    /\ pA \in DOMAIN sourceContexts /\ pB \in Range(sourceContexts[pA].dependencies)
    /\ pB \in DOMAIN releaseGrammar(Start, pB).sc

\* No entry of sc reaches itself along the dependencies lists.
RECURSIVE Reach(_, _, _)
Reach(sc, S, n) ==
    IF n = 0 THEN S
    ELSE Reach(sc, S \cup UNION {Range(sc[q].dependencies) : q \in S \cap DOMAIN sc}, n - 1)

Acyclic(sc) ==
    \A p \in DOMAIN sc :
        p \notin Reach(sc, Range(sc[p].dependencies), Cardinality(DOMAIN sc))

\* C6: from the empty map, loadGrammar(g) followed by releaseGrammar(g)
\* leaves the map empty when the grammars loaded do not depend on
\* themselves.
C6_LoadRelease ==
    sourceContexts = << >> =>
        \A g \in Paths : \A s \in Sources(g) :
            LET m1 == loadGrammar(Start, g, s)
            IN Acyclic(m1.sc) => releaseGrammar(m1, g).sc = << >>

\* The load of A from the empty map brings A, B and C, B being a dependency
\* of both A and C; the release of A empties the map.
C6_Witness ==
    /\ sourceContexts = << >>
    /\ LET m1 == loadGrammar(Start, pA, Undefined)
       IN /\ DOMAIN m1.sc = {pA, pB, pCi}
          /\ m1.sc[pB].refCount = 2
          /\ Acyclic(m1.sc)
          /\ releaseGrammar(m1, pA).sc = << >>

\* The paths a parse of grammar resolves the names to: for each name the
\* first candidate that exists, none for a name without a file.
FirstExisting(cands) ==
    LET found == SelectSeq(cands, Exists)
    IN IF found = <<>> THEN <<>> ELSE <<Head(found)>>

RECURSIVE Resolve(_, _)
Resolve(grammar, names) ==
    IF names = <<>> THEN <<>>
    ELSE FirstExisting(Candidates(grammar, Head(names))) \o Resolve(grammar, Tail(names))

\* The events of the given kind about what.
Events(lg, kind, what) == {i \in DOMAIN lg : lg[i].kind = kind /\ lg[i].what = what}

\* setText(f, t) followed by reparse(f)
Retext(f, t) == reparse(setText(Start, f, t), f)

\* C7: a grammar f of the map names the one dependency a, which is in the
\* map; its text is changed to name the one dependency b instead (both
\* files exist) and it is reparsed.  Then the dependencies list of f is
\* <<b>>, b is in the map and was made a reference of f exactly once, the
\* refCount of a was decremented exactly once, and a left the map exactly
\* if that decrement brought it to zero.
C7_SwapDependency ==
    \A f \in DOMAIN sourceContexts : \A t \in TextsFor(f) :
        LET old == sourceContexts[f].dependencies
            new == Resolve(f, Parse(t))
        IN (Len(old) = 1 /\ Len(new) = 1 /\ old # new /\ old[1] \in DOMAIN sourceContexts) =>
              LET a == old[1]
                  b == new[1]
                  m == Retext(f, t)
                  rel == Events(m.log, "release", a)
              IN /\ f \in DOMAIN m.sc
                 /\ m.sc[f].dependencies = <<b>>
                 /\ b \in DOMAIN m.sc
                 /\ m.sc[b].refCount >= 1
                 /\ Cardinality({i \in DOMAIN m.log : m.log[i].kind = "addAsReferenceTo"
                                    /\ m.log[i].what[1] = sourceContexts[f].context}) = 1
                 /\ Events(m.log, "addAsReferenceTo",
                           <<sourceContexts[f].context, m.sc[b].context>>) # {}
                 /\ Cardinality(rel) = 1
                 /\ \A i \in rel :
                       /\ m.log[i].count = Before(sourceContexts, m.log, i)[a].refCount - 1
                       /\ (m.log[i].count = 0) <=> (a \notin DOMAIN m.sc)
                 /\ a \in DOMAIN m.sc =>
                       /\ m.sc[a].context = sourceContexts[a].context
                       /\ m.sc[a].refCount = sourceContexts[a].refCount - 1
                             + Cardinality(Events(m.log, "addRef", a))

\* C7 where no releaseGrammar(name) was called more often than loadGrammar(name)
C7_SwapBalanced == ~everOver => C7_SwapDependency

\* A depends on C alone, which nothing else holds; the text of A is changed
\* to import B: after the reparse A depends on B alone and C has left the map.
C7_Witness ==
    /\ ~everOver
    /\ pA \in DOMAIN sourceContexts /\ pCi \in DOMAIN sourceContexts
    /\ sourceContexts[pA].dependencies = <<pCi>>
    /\ sourceContexts[pCi].refCount = 1
    /\ LET m == Retext(pA, <<"B">>)
       IN /\ m.sc[pA].dependencies = <<pB>>
          /\ pCi \notin DOMAIN m.sc
          /\ pB \in DOMAIN m.sc

\* C8: when the first parse of a load or a reparse is done, the dependencies
\* list of the parsed entry is the list of the files found for the names
\* that parse returned, one path per name in the order of the parse, and
\* nothing of an earlier parse; the same holds of every entry the call made.
C8_DependenciesOfParse ==
    \A f \in Paths :
        /\ f \notin DOMAIN sourceContexts =>
              \A s \in Sources(f) :
                  LET m == loadGrammar(Start, f, s)
                  IN /\ f \in DOMAIN m.sc
                     /\ m.sc[f].source = (IF Falsy(s) THEN ReadFile(f) ELSE s[1])
                     /\ \A p \in DOMAIN m.sc \ DOMAIN sourceContexts :
                           m.sc[p].dependencies = Resolve(p, Parse(m.sc[p].source))
        /\ f \in DOMAIN sourceContexts =>
              \A t \in TextsFor(f) :
                  LET m == Retext(f, t)
                  IN /\ f \in DOMAIN m.sc =>
                           /\ m.sc[f].source = t
                           /\ m.sc[f].dependencies = Resolve(f, Parse(t))
                     /\ \A p \in DOMAIN m.sc \ DOMAIN sourceContexts :
                           m.sc[p].dependencies = Resolve(p, Parse(m.sc[p].source))

\* A depends on B and C; its text is changed to name Z, which has no file,
\* and C: after the reparse its dependencies list is the path of C alone.
C8_Witness ==
    /\ pA \in DOMAIN sourceContexts
    /\ sourceContexts[pA].dependencies = <<pB, pCi>>
    /\ Retext(pA, <<"Z", "C">>).sc[pA].dependencies = <<pCi>>

\* C9 as claimed: a query of a grammar of the map returns its context and
\* changes nothing; a query of a grammar that is not in the map loads it
\* and leaves it without a reference of its own: its refCount counts the
\* dependencies lists that name it and nothing else.
C9_Original ==
    \A f \in Paths :
        LET m == getContext(Start, f, Undefined)
        IN IF f \in DOMAIN sourceContexts
           THEN m.sc = sourceContexts /\ m.ret = sourceContexts[f].context
           ELSE /\ f \in DOMAIN m.sc
                /\ m.ret = m.sc[f].context
                /\ m.sc[f].refCount = RefsIn(m.sc, f)

\* C9, amended: a query of a grammar of the map returns its context and
\* changes nothing; a query of a grammar that is not in the map is a
\* loadGrammar of it, the increment of its refCount included: the grammar
\* is left in the map with one reference more than the dependencies lists
\* that name it, and the releaseGrammar that balances the query removes it.
C9_QueryLoads ==
    \A f \in Paths :
        LET m == getContext(Start, f, Undefined)
        IN IF f \in DOMAIN sourceContexts
           THEN m.sc = sourceContexts /\ m.ret = sourceContexts[f].context /\ m.log = <<>>
           ELSE /\ m = loadGrammar(Start, f, Undefined)
                /\ f \in DOMAIN m.sc
                /\ m.ret = m.sc[f].context
                /\ m.sc[f].refCount >= 1
                /\ m.log[Len(m.log)].kind = "addRef" /\ m.log[Len(m.log)].what = f
                /\ ~everOver => m.sc[f].refCount = RefsIn(m.sc, f) + 1

\* A query of B, which is not in the map, leaves B with refCount 1, and B
\* stays until a releaseGrammar(B) removes it.
C9_Witness ==
    /\ pA \in DOMAIN sourceContexts /\ pB \notin DOMAIN sourceContexts
    /\ LET m == getContext(Start, pB, Undefined)
       IN /\ m.sc[pB].refCount = 1
          /\ pB \notin DOMAIN releaseGrammar(m, pB).sc

\* C10: setText and reparse of a name that is not in the map make no entry,
\* run no parse and leave the map as it is.
C10_NotLoaded ==
    \A f \in Paths \ DOMAIN sourceContexts :
        /\ \A t \in TextsFor(f) :
              LET m == setText(Start, f, t)
              IN m.sc = sourceContexts /\ m.log = <<>>
        /\ LET m == reparse(Start, f)
           IN m.sc = sourceContexts /\ m.log = <<>>

\* A is in the map, B is not: a setText and a reparse of B leave the map as
\* it is.
C10_Witness ==
    /\ ~everOver /\ net[pA] > 0 /\ net[pB] = 0
    /\ pA \in DOMAIN sourceContexts /\ pB \notin DOMAIN sourceContexts
    /\ reparse(setText(Start, pB, <<"C">>), pB).sc = sourceContexts

\* C11 as claimed: the contextCount of getSelfDiagnostics is the number of
\* entries of the map.
C11_Original == getSelfDiagnostics(Start).contextCount = Cardinality(DOMAIN sourceContexts)

\* C12: loadGrammar without a source, of a name that is not in the map and
\* whose file cannot be read, reads nothing but makes the entry all the
\* same: a new context with the empty text, parsed, without dependencies,
\* counted once and returned; the other entries stay as they are.
C12_MissingFile ==
    \A f \in Paths \ DOMAIN sourceContexts :
        ~Exists(f) =>
            LET m == loadGrammar(Start, f, Undefined)
            IN /\ DOMAIN m.sc = DOMAIN sourceContexts \cup {f}
               /\ \A p \in DOMAIN sourceContexts : m.sc[p] = sourceContexts[p]
               /\ m.ret \notin Start.used
               /\ m.sc[f] = [context |-> m.ret, refCount |-> 1, dependencies |-> <<>>,
                             grammar |-> f, source |-> <<>>, hasErrors |-> FALSE]
               /\ [i \in DOMAIN m.log |-> m.log[i].kind] = <<"read", "new", "parse", "addRef">>

\* Other grammars are in the map; the load of the file that does not exist
\* adds its entry with the empty text.
C12_Witness ==
    /\ sourceContexts # << >> /\ ~Exists(pN)
    /\ LET m == loadGrammar(Start, pN, Undefined)
       IN pN \in DOMAIN m.sc /\ m.sc[pN].source = <<>> /\ m.ret = <<pN, 1>>

\* The parse of f (context ctx) that returned names, seen in the call m:
\* every name without a file is reported unresolved and nothing else is done
\* for it; the other names are resolved.
SkippedIn(m, f, ctx, names) ==
    LET missing == {names[i] : i \in {j \in DOMAIN names :
                                        FirstExisting(Candidates(f, names[j])) = <<>>}}
    IN /\ \A n \in missing : Events(m.log, "unresolved", n) # {}
       /\ \A i \in DOMAIN m.log : m.log[i].kind = "new" => m.log[i].what[2] \notin missing
       /\ \A p \in DOMAIN m.sc \ DOMAIN sourceContexts : p[2] \notin missing
       /\ f \in DOMAIN m.sc =>
             /\ m.sc[f].dependencies = Resolve(f, names)
             /\ \A d \in Range(m.sc[f].dependencies) : d[2] \notin missing
       /\ Cardinality({i \in DOMAIN m.log : m.log[i].kind = "addAsReferenceTo"
                          /\ m.log[i].what[1] = ctx}) = Len(Resolve(f, names))

\* C13: a name a parse returned for which no candidate file exists is
\* skipped: no entry is made for it, nothing is appended to the dependencies
\* list, addAsReferenceTo is not called for it, and the other names of the
\* parse are resolved.
C13_UnresolvedSkipped ==
    \A f \in PublicPaths :
        IF f \in DOMAIN sourceContexts
        THEN \A t \in TextsFor(f) :
                 SkippedIn(Retext(f, t), f, sourceContexts[f].context, Parse(t))
        ELSE \A t \in TextsFor(f) :
                 LET m == loadGrammar(Start, f, Given(t))
                 IN SkippedIn(m, f, m.ret, Parse(IF t = <<>> THEN ReadFile(f) ELSE t))

\* A was parsed with a text that names Z, which has no file, and then C:
\* its dependencies list is the path of C alone; a reparse reports Z again.
C13_Witness ==
    /\ ~everOver /\ pA \in DOMAIN sourceContexts
    /\ sourceContexts[pA].source = <<"Z", "C">>
    /\ sourceContexts[pA].dependencies = <<pCi>>
    /\ Events(reparse(Start, pA).log, "unresolved", "Z") # {}

\* The places of the files of a name a grammar depends on, in the order
\* <import folder>/name.g4, <import folder>/name.g, <folder of the
\* grammar>/name.g4, <folder of the grammar>/name.g, where a relative import
\* folder is one below the folder of the grammar.
PlacesOf(grammar, name) ==
    LET own == grammar[1]
        imp == IF importDir[1] = "/" THEN importDir ELSE own \o importDir
    IN << <<imp, name, "g4">>, <<imp, name, "g">>, <<own, name, "g4">>, <<own, name, "g">> >>

\* The first place that has a file, for each name that has one.
RECURSIVE Expected(_, _)
Expected(grammar, names) ==
    IF names = <<>> THEN <<>>
    ELSE LET places == PlacesOf(grammar, Head(names))
             there == {i \in 1 .. 4 : places[i] \in DOMAIN Disk}
         IN (IF there = {} THEN <<>> ELSE <<places[Min(there)]>>)
            \o Expected(grammar, Tail(names))

\* What a call m left: the entry of f, if still there, and every entry the
\* call made list the expected files of their texts, and every entry the
\* call made, but f, is such a file of some entry.
ResolvedIn(m, f) ==
    LET made == DOMAIN m.sc \ DOMAIN sourceContexts
    IN /\ \A p \in (made \cup {f}) \cap DOMAIN m.sc :
             m.sc[p].dependencies = Expected(p, Parse(m.sc[p].source))
       /\ \A p \in made \ {f} :
             \E q \in DOMAIN m.sc : p \in Range(Expected(q, Parse(m.sc[q].source)))

\* C14: each name of a parse is resolved to the first existing file among
\* <importDir>/name.g4, <importDir>/name.g, <grammar dir>/name.g4,
\* <grammar dir>/name.g, the import folder being relative to the folder of
\* the grammar unless absolute; that file and no later candidate is loaded
\* and appended to the dependencies list.
C14_FirstCandidate ==
    /\ pCr \in DOMAIN Disk /\ pCr \notin DOMAIN sourceContexts
    /\ \A f \in PublicPaths :
          IF f \in DOMAIN sourceContexts
          THEN \A t \in TextsFor(f) : ResolvedIn(Retext(f, t), f)
          ELSE \A s \in Sources(f) : ResolvedIn(loadGrammar(Start, f, s), f)

\* With an absolute import folder A was loaded with B (first place) and C
\* (second place, although the third has a file too), and C with B.
C14_Witness ==
    /\ importDir[1] = "/"
    /\ {pA, pB, pCi} \subseteq DOMAIN sourceContexts
    /\ sourceContexts[pA].dependencies = <<pB, pCi>>
    /\ sourceContexts[pCi].dependencies = <<pB>>
    /\ PlacesOf(pA, "C")[3] = pCr

\* The entries of sc that f reaches along dependencies lists, through
\* entries of sc.
ReachIn(sc, f) ==
    Reach(sc, Range(sc[f].dependencies), Cardinality(DOMAIN sc)) \cap DOMAIN sc

\* Neither f nor an entry it reaches depends on itself.
AcyclicFrom(sc, f) ==
    \A p \in {f} \cup ReachIn(sc, f) : p \notin ReachIn(sc, p)

\* C15: for a grammar f of the map whose dependency graph is acyclic,
\* getDependencies(f) returns the file names of the entries f reaches, each
\* once, f not among them, every dependency before the grammars that list
\* it.
C15_GetDependencies ==
    \A f \in DOMAIN sourceContexts :
        AcyclicFrom(sourceContexts, f) =>
            LET r == getDependencies(Start, f)
            IN /\ ~r.thrown
               /\ Range(r.result) = ReachIn(sourceContexts, f)
               /\ Cardinality(Range(r.result)) = Len(r.result)
               /\ f \notin Range(r.result)
               /\ \A i, j \in DOMAIN r.result :
                     r.result[i] \in Range(sourceContexts[r.result[j]].dependencies) => i < j

\* A lists C alone, and C lists B: getDependencies(A) is B, then C.  With
\* A listing B and C, B is reached twice and returned once.
C15_Witness ==
    /\ ~everOver /\ {pA, pB, pCi} \subseteq DOMAIN sourceContexts
    /\ sourceContexts[pA].dependencies = <<pCi>>
    /\ sourceContexts[pCi].dependencies = <<pB>>
    /\ sourceContexts[pB].dependencies = <<>>
    /\ getDependencies(Start, pA).result = <<pB, pCi>>
    /\ getDependencies(loadGrammar(Start, pA, Undefined), pCi).result = <<pB>>
    /\ LET m == Retext(pA, <<"B", "C">>)
       IN m.sc[pA].dependencies = <<pB, pCi>> /\ getDependencies(m, pA).result = <<pB, pCi>>

\* C16 as claimed: a generate call of a grammar made while an earlier
\* generate call of it is pending is forwarded to the context at once: one
\* more generation of the grammar is pending.
C16_Original ==
    \A f \in PublicPaths :
        pending[f] >= 1 =>
            LET g == generate(Start, f, pending[f])
            IN g.forwarded /\ g.pending = pending[f] + 1

\* C16, what holds: a generate call of a grammar made while earlier
\* generate calls of it are pending does what it does with none pending:
\* the same context and dependencies are resolved and, unless the
\* dependencies cannot be gathered, context.generate is called at once,
\* which makes one more pending generation; for an acyclic grammar it
\* always is.
C16_NotSerialized ==
    \A f \in PublicPaths :
        pending[f] >= 1 =>
            LET g  == generate(Start, f, pending[f])
                g0 == generate(Start, f, 0)
            IN /\ g.sc = g0.sc /\ g.context = g0.context
               /\ g.dependencies = g0.dependencies
               /\ g.forwarded = g0.forwarded
               /\ g.forwarded => g.pending = pending[f] + 1
               /\ AcyclicFrom(g.sc, f) => g.forwarded

\* Two generations of A are pending at the same time.
C16_Witness ==
    /\ pA \in DOMAIN sourceContexts /\ pending[pA] = 2
    /\ generate(Start, pA, 1).forwarded

----------------------------------------------------------------------------
\* The graph of a rule.

\* The number a string of decimal digits denotes.
RECURSIVE Value(_)
Value(name) ==
    IF name = <<>> THEN 0
    ELSE 10 * Value(SubSeq(name, 1, Len(name) - 1))
         + (CHOOSE d \in 0 .. 9 : DigitChars[d + 1] = name[Len(name)])

\* The automaton the graph was taken from: that of the rule its first node
\* starts.
AutomatonOf(g) == IF g.nodes[1].id = StartOf("a") THEN atn ELSE <<>>

\* The rule invocations the traversal meets, in its order: those of the
\* first state node, then those of the second, and so on.
RECURSIVE InvocationsFrom(_, _)
InvocationsFrom(nodes, a) ==
    IF nodes = <<>> THEN <<>>
    ELSE SelectSeq(a, LAMBDA t : t.from = Head(nodes).id /\ t.kind \in RuleNames)
         \o InvocationsFrom(Tail(nodes), a)

\* The sequence without its repetitions, first occurrences kept.
RECURSIVE Dedupe(_)
Dedupe(seq) ==
    IF seq = <<>> THEN <<>>
    ELSE LET front == SubSeq(seq, 1, Len(seq) - 1)
             last  == seq[Len(seq)]
         IN IF \E i \in DOMAIN front : front[i] = last THEN Dedupe(front)
            ELSE Append(Dedupe(front), last)

\* The labels of the transitions of a from one state to another, in order.
RECURSIVE LabelsBetween(_, _, _)
LabelsBetween(a, from, to) ==
    IF a = <<>> THEN <<>>
    ELSE IF Head(a).from = from /\ Head(a).to = to /\ Head(a).kind \notin RuleNames
         THEN <<Head(a).kind>> \o LabelsBetween(Tail(a), from, to)
         ELSE LabelsBetween(Tail(a), from, to)

\* C19: in a graph returned, node ids are pairwise distinct; the node of a
\* state has the state's number as id, a positive number, and the decimal
\* string of it as name; the node of a rule invocation has a negative id and
\* the name of the invoked rule; these nodes are numbered -1, -2, -3, ... in
\* the order they have in nodes, and there is one for every invocation, also
\* when a rule is invoked several times.
C19_NodeIds ==
    graph # NoGraph =>
        LET nodes == graph.nodes
            placeholders == SelectSeq(nodes, LAMBDA n : n.id < 0)
            states == SelectSeq(nodes, LAMBDA n : n.id > 0)
            invocations == InvocationsFrom(states, AutomatonOf(graph))
        IN /\ \A i, j \in DOMAIN nodes : i # j => nodes[i].id # nodes[j].id
           /\ \A i \in DOMAIN nodes : nodes[i].id # 0
           /\ \A i \in DOMAIN states :
                  /\ states[i].id \in StateNumbers \cup {StartOf(rule) : rule \in RuleNames}
                  /\ \A k \in DOMAIN states[i].name :
                         \E d \in DOMAIN DigitChars : DigitChars[d] = states[i].name[k]
                  /\ states[i].name[1] # "0"
                  /\ Value(states[i].name) = states[i].id
           /\ Len(placeholders) = Len(invocations)
           /\ \A k \in DOMAIN placeholders :
                  /\ placeholders[k].id = 0 - k
                  /\ placeholders[k].name = <<invocations[k].kind>>

\* Rule b is invoked twice and rule a once, and the state 103 is a node.
C19_Witness ==
    /\ graph # NoGraph
    /\ \E i, j, k, l \in DOMAIN graph.nodes :
           /\ i < j
           /\ graph.nodes[i].id = -1 /\ graph.nodes[j].id = -2
           /\ graph.nodes[i].name = <<"b">> /\ graph.nodes[j].name = <<"b">>
           /\ graph.nodes[k].id = -3 /\ graph.nodes[k].name = <<"a">>
           /\ graph.nodes[l].id = 103 /\ graph.nodes[l].name = <<"1", "0", "3">>

\* C20: in a graph returned, the source and the target of a link are
\* indices of nodes, no two links have the same source and the same target,
\* a link has at least one label and no label twice, and the link between
\* two states has the labels of all the transitions between them, in the
\* order they are first met.
C20_Links ==
    graph # NoGraph =>
        LET nodes == graph.nodes
            links == graph.links
            a     == AutomatonOf(graph)
        IN /\ \A i \in DOMAIN links :
                  /\ links[i].source \in 0 .. Len(nodes) - 1
                  /\ links[i].target \in 0 .. Len(nodes) - 1
                  /\ links[i].labels # <<>>
                  /\ \A k, l \in DOMAIN links[i].labels :
                         k # l => links[i].labels[k] # links[i].labels[l]
           /\ \A i, j \in DOMAIN links :
                  i # j => \/ links[i].source # links[j].source
                           \/ links[i].target # links[j].target
           /\ \A i \in DOMAIN links :
                  LET from == nodes[links[i].source + 1].id
                      to   == nodes[links[i].target + 1].id
                  IN from > 0 /\ to > 0 =>
                         links[i].labels = Dedupe(LabelsBetween(a, from, to))
           /\ \A k \in DOMAIN a :
                  (a[k].kind \notin RuleNames /\ \E n \in DOMAIN nodes : nodes[n].id = a[k].from) =>
                      \E i \in DOMAIN links :
                          /\ nodes[links[i].source + 1].id = a[k].from
                          /\ nodes[links[i].target + 1].id = a[k].to

\* Three transitions between the same two states, the first and the last
\* with the same label: one link with two labels.
C20_Witness ==
    /\ graph # NoGraph
    /\ Len(atn) = MaxTransitions
    /\ \A k \in DOMAIN atn : atn[k].from = 1 /\ atn[k].to = 12
    /\ atn[1].kind = "x" /\ atn[2].kind = "eps" /\ atn[Len(atn)].kind = "x"
    /\ Len(graph.nodes) = 2
    /\ \E i \in DOMAIN graph.links : graph.links[i].labels = <<"x", "eps">>
----------------------------------------------------------------------------
\* getATNGraph without interpreter data.

\* The context registered as fileName holds interpreter data and its
\* grammar has no errors.
Available(fileName) ==
    /\ fileName \in DOMAIN sourceContexts
    /\ sourceContexts[fileName].context \in interpreter
    /\ ~sourceContexts[fileName].hasErrors

\* C17: getATNGraph returns undefined for a grammar that has errors and for
\* one whose own context holds no interpreter data, whatever the rule; and
\* the only call after which the context of a grammar holds data it did not
\* hold before is the loading of the data of that very grammar: loading the
\* data of a parser grammar leaves the lexer grammar it depends on without.
C17_Undefined ==
    [][/\ \A fileName \in PublicPaths, rule \in RuleNames :
              ~Available(fileName) =>
                  getATNGraph(Start, fileName, rule, interpreter, atn).graph = NoGraph
       /\ \A fileName \in PublicPaths :
              (~Available(fileName) /\ Available(fileName)') =>
                  GenerateLoadOnly(fileName, TRUE)]_vars

\* The parser grammar A holds data, the lexer grammar B it depends on holds
\* none: the graph of a rule of A is there, that of B is not.
C17_Witness ==
    /\ Available(pA)
    /\ pB \in DOMAIN sourceContexts
    /\ \E i \in DOMAIN sourceContexts[pA].dependencies : sourceContexts[pA].dependencies[i] = pB
    /\ sourceContexts[pB].context \notin interpreter
    /\ getATNGraph(Start, pA, "a", interpreter, atn).graph # NoGraph
    /\ getATNGraph(Start, pB, "a", interpreter, atn).graph = NoGraph
----------------------------------------------------------------------------
\* The formatter.

\* A format of the whole file: the range from the first character to stop,
\* the last character or behind it.
WholeFile(chars) == {stop \in Offsets : stop >= Len(chars) - 1 /\ stop >= 0}

Inked(chars) == {i \in DOMAIN chars : chars[i] # " " /\ chars[i] # "\n"}

\* The top-level elements of the text, each as the pair of the offsets of
\* its first and of its last character: an element begins with the first
\* such character of the text or behind a ";", and ends with the next ";"
\* or with the last such character.
Extents(chars) ==
    LET inked == Inked(chars)
        Begins(i) == \A j \in inked : j < i => \E k \in j .. i - 1 : chars[k] = ";"
        EndOf(i) == Min({j \in inked : j >= i /\ (chars[j] = ";" \/ \A k \in inked : k <= j)})
    IN {<<i - 1, EndOf(i) - 1>> : i \in {i \in inked : Begins(i)}}

\* The text with the answer r put in the place of the characters r.start
\* to r.stop.
Splice(chars, r) ==
    SubSeq(chars, 1, r.start) \o r.text \o SubSeq(chars, r.stop + 2, Len(chars))

\* The requests for a part of the text: start before stop, and not both
\* outside the text.
InRange(chars, start, stop) ==
    /\ start <= stop
    /\ ~(start < 0 /\ stop < 0)
    /\ ~(start >= Len(chars) /\ stop >= Len(chars))

OutsideRequests(chars) ==
    {q \in Offsets \X Offsets : Outside(chars, q[1], q[2])}

----------------------------------------------------------------------------
\* The order of loads and releases in a reparse.

\* The dependencies in the map that the list of f names and the text t
\* names again.
Shared(f, t) ==
    Range(sourceContexts[f].dependencies) \cap Range(Resolve(f, Parse(t)))
        \cap DOMAIN sourceContexts

\* Every load of the call comes before every release of it.
LoadsFirst(lg) ==
    \A i, j \in DOMAIN lg :
        (lg[i].kind \in {"release", "delete"} /\ lg[j].kind \in {"new", "addRef"}) => j < i

\* d is in the map, with the context it had, after every event of the call
\* and at its end.
Kept(m, d) ==
    /\ \A i \in DOMAIN m.log :
           d \in DOMAIN m.log[i].sc /\ m.log[i].sc[d].context = sourceContexts[d].context
    /\ d \in DOMAIN m.sc /\ m.sc[d].context = sourceContexts[d].context

----------------------------------------------------------------------------
\* The reference count of an entry.

\* The explicit loadGrammar calls for p that no releaseGrammar call has
\* answered yet.
Held(p) == IF p \in PublicPaths THEN net[p] ELSE 0

\* C25: between the calls of loadGrammar, releaseGrammar, setText and reparse,
\* as long as no name was released more often than it was loaded, the
\* refCount of every entry is the number of its explicit loads not yet
\* released plus the number of times the dependencies lists of the map name
\* its path, a path named twice by one list counted twice.
C25_RefCount ==
    ~everOver =>
        \A p \in DOMAIN sourceContexts :
            sourceContexts[p].refCount = Held(p) + RefsIn(sourceContexts, p)

\* B was loaded twice and is named twice by the list of A: its refCount is
\* 2 + 2.
C25_Witness ==
    /\ ~everOver
    /\ {pA, pB} \subseteq DOMAIN sourceContexts
    /\ Held(pB) = 2
    /\ sourceContexts[pA].dependencies = <<pB, pB>>
    /\ sourceContexts[pB].refCount = 4
----------------------------------------------------------------------------
\* The text a caller supplies to loadGrammar.

\* loadGrammar(f, Given(t)) of a name that is not in the map takes t as the
\* text of the grammar and does not read the file f.
Supplied(f, t) ==
    LET m == loadGrammar(Start, f, Given(t))
    IN /\ Events(m.log, "read", f) = {}
       /\ f \in DOMAIN m.sc
       /\ m.sc[f].source = t

\* C26: loadGrammar(name, source) of a name that is not in the map takes the
\* supplied text as the text of the grammar and does not read the file, for
\* every supplied text, the empty one included.
C26_Original ==
    \A f \in PublicPaths \ DOMAIN sourceContexts : \A t \in TextsFor(f) : Supplied(f, t)
----------------------------------------------------------------------------
\* Texts set one after the other.

\* setText(f, t1); reparse(f); setText(f, t2); reparse(f)
RetextTwice(f, t1, t2) == reparse(setText(Retext(f, t1), f, t2), f)

\* The maps of a and b have the same keys and the same refCounts, and f has
\* the same dependencies list in both.
SameOutcome(f, a, b) ==
    /\ DOMAIN a.sc = DOMAIN b.sc
    /\ \A p \in DOMAIN a.sc : a.sc[p].refCount = b.sc[p].refCount
    /\ f \in DOMAIN a.sc => a.sc[f].dependencies = b.sc[f].dependencies

\* The grammars a caller has loaded and not released.
Loaded == {f \in DOMAIN sourceContexts \cap PublicPaths : net[f] > 0}

\* C27: for a loaded grammar, setText(t1); reparse; setText(t2); reparse
\* ends with the same dependencies list of the grammar, the same keys of the
\* map and the same refCounts as setText(t2); reparse alone.
C27_Original ==
    \A f \in Loaded : \A t1, t2 \in TextsFor(f) :
        SameOutcome(f, RetextTwice(f, t1, t2), Retext(f, t2))
----------------------------------------------------------------------------
\* What setText, and a source given for a grammar in the map, leave alone.

\* C28: setText of a grammar in the map puts the text in its entry and does
\* nothing else: nothing is parsed, read, made, counted or released, and the
\* dependencies list of the grammar, every refCount and the keys of the map
\* are those of before, whatever the new text names.
C28_SetTextOnly ==
    \A f \in DOMAIN sourceContexts \cap PublicPaths : \A t \in TextsFor(f) :
        LET m == setText(Start, f, t)
        IN /\ m.sc = [sourceContexts EXCEPT ![f].source = t]
           /\ \A i \in DOMAIN m.log : m.log[i].kind = "setText"

\* A holds B and C; the text set names B only, and the list of A still
\* names both: it is the reparse that takes C from the map.
C28_Witness ==
    /\ pA \in DOMAIN sourceContexts
    /\ sourceContexts[pA].dependencies = <<pB, pCi>>
    /\ LET m == setText(Start, pA, <<"B">>)
       IN /\ m.sc[pA].source = <<"B">>
          /\ m.sc[pA].dependencies = <<pB, pCi>>
          /\ pCi \in DOMAIN m.sc
          /\ pCi \notin DOMAIN reparse(m, pA).sc

\* C29: for a name in the map, loadGrammar and getContext take no notice of
\* a source: the text and the dependencies list of the grammar stay,
\* nothing is parsed or read, loadGrammar adds one to the refCount of the
\* grammar and changes nothing else, getContext changes nothing, and both
\* return the context of the entry.
C29_SourceIgnored ==
    \A f \in DOMAIN sourceContexts \cap PublicPaths : \A s \in Sources(f) :
        LET l == loadGrammar(Start, f, s)
            g == getContext(Start, f, s)
        IN /\ l.sc = [sourceContexts EXCEPT ![f].refCount = @ + 1]
           /\ \A i \in DOMAIN l.log : l.log[i].kind = "addRef"
           /\ l.ret = sourceContexts[f].context
           /\ g.sc = sourceContexts
           /\ g.log = <<>>
           /\ g.ret = sourceContexts[f].context

\* A is in the map with the text of its file, and a source with another
\* text, which names other grammars, is given for it.
C29_Witness ==
    /\ pA \in DOMAIN sourceContexts
    /\ sourceContexts[pA].source = Disk[pA]
    /\ sourceContexts[pA].dependencies = <<pB, pCi>>
    /\ Given(<<"Z", "C">>) \in Sources(pA)
    /\ loadGrammar(Start, pA, Given(<<"Z", "C">>)).sc[pA].source = Disk[pA]
    /\ getContext(Start, pA, Given(<<"Z", "C">>)).sc[pA].dependencies = <<pB, pCi>>
----------------------------------------------------------------------------
\* The walk over the dependencies comes to an end.

\* C30: for every grammar of every map that loadGrammar and reparse build,
\* a grammar that names itself and two grammars that name each other
\* included, the gathering of its dependencies ends: it returns, and the
\* stack is not exhausted.
C30_Original ==
    \A f \in DOMAIN sourceContexts : ~getDependencies(Start, f).thrown
----------------------------------------------------------------------------
\* The release of a grammar comes to an end.

\* The sum of the lengths of the dependencies lists of the entries S of sc.
RECURSIVE Listed(_, _)
Listed(sc, S) ==
    IF S = {} THEN 0
    ELSE LET q == CHOOSE y \in S : TRUE
         IN Len(sc[q].dependencies) + Listed(sc, S \ {q})

\* The events of the given kind.
EventsOf(lg, kind) == {i \in DOMAIN lg : lg[i].kind = kind}

\* C31: releaseGrammar ends on every map that loadGrammar and reparse build,
\* the cyclic ones included: an entry is counted down only while it is in
\* the map, it is removed at most once, the dependencies of an entry are
\* released only when that entry is removed, and so there are no more
\* releases than one and one for each dependency the removed entries list.
C31_ReleaseEnds ==
    \A f \in PublicPaths :
        LET m == releaseGrammar(Start, f)
            removed == {m.log[i].what : i \in EventsOf(m.log, "delete")}
        IN /\ \A i \in EventsOf(m.log, "release") :
                  LET before == Before(sourceContexts, m.log, i)
                  IN /\ m.log[i].what \in DOMAIN before
                     /\ m.log[i].count = before[m.log[i].what].refCount - 1
           /\ \A i, j \in EventsOf(m.log, "delete") :
                  m.log[i].what = m.log[j].what => i = j
           /\ removed \subseteq DOMAIN sourceContexts
           /\ DOMAIN m.sc = DOMAIN sourceContexts \ removed
           /\ Cardinality(EventsOf(m.log, "release")) <= 1 + Listed(sourceContexts, removed)

\* B and C name each other and the last reference to B from outside is
\* released: B is removed, then C, and the release of the B that C lists
\* finds no entry and stops.
C31_Witness ==
    /\ {pB, pCi} \subseteq DOMAIN sourceContexts
    /\ sourceContexts[pB].dependencies = <<pCi>>
    /\ sourceContexts[pCi].dependencies = <<pB>>
    /\ LET m == releaseGrammar(Start, pB)
       IN /\ {m.log[i].what : i \in EventsOf(m.log, "delete")} = {pB, pCi}
          /\ Cardinality(EventsOf(m.log, "release")) = 2
----------------------------------------------------------------------------
\* A load and its release, on an empty map.

\* C32: from an empty map, loadGrammar(f) followed by the one
\* releaseGrammar(f) that answers it leaves the map empty, also when the
\* text of f names f itself or a grammar that names f.
C32_Original ==
    sourceContexts = << >> =>
        \A f \in PublicPaths : \A s \in Sources(f) :
            DOMAIN releaseGrammar(loadGrammar(Start, f, s), f).sc = {}
----------------------------------------------------------------------------
\* The references between contexts.

\* The call m tears down the edge from the context of p to the context of d:
\* removeDependency is called on the context of p with the context of d.
TornDown(m, p, d) ==
    \E i \in EventsOf(m.log, "removeDependency") :
        m.log[i].what = <<sourceContexts[p].context, sourceContexts[d].context>>

\* Every entry that releaseGrammar(f) removes has its edges to the
\* dependencies that are in the map torn down.
TornDownOnRemoval(f) ==
    LET m == releaseGrammar(Start, f)
    IN \A i \in EventsOf(m.log, "delete") :
           LET p == m.log[i].what
           IN \A d \in Range(sourceContexts[p].dependencies) \cap DOMAIN sourceContexts :
                  TornDown(m, p, d)

\* A reparse of f with the text t tears down the edges to the dependencies
\* that t names no more and that stay in the map.
TornDownOnReparse(f, t) ==
    LET m == Retext(f, t)
        dropped == (Range(sourceContexts[f].dependencies) \ Range(Resolve(f, Parse(t))))
                       \cap DOMAIN sourceContexts \cap DOMAIN m.sc
    IN \A d \in dropped : TornDown(m, f, d)

\* C33: every edge made with addAsReferenceTo on the context of a dependent
\* is torn down with removeDependency on that context when the edge is
\* dropped: when the dependent is removed from the map, and when a reparse
\* names the dependency no more and the dependency stays in the map.
C33_Original ==
    /\ \A f \in PublicPaths : TornDownOnRemoval(f)
    /\ \A f \in DOMAIN sourceContexts \cap PublicPaths : \A t \in TextsFor(f) :
           TornDownOnReparse(f, t)
----------------------------------------------------------------------------
\* A grammar loaded again after it was removed.

\* The texts loadGrammar(f, s) can give a new entry: the text supplied, or
\* that of the file when none is supplied (an empty text supplied is read as
\* either).
TextOf(f, s) ==
    IF s = Undefined THEN {ReadFile(f)}
    ELSE IF s[1] = <<>> THEN {<<>>, ReadFile(f)}
    ELSE {s[1]}

\* C34: when a release takes the last reference of f and f is removed, a
\* later loadGrammar(f, s) makes a context that is not the removed one,
\* takes the text from s or from the file and resolves its dependencies from
\* that text: neither the text set before nor the list of before is kept.
C34_LoadedAnew ==
    \A f \in DOMAIN sourceContexts \cap PublicPaths : \A s \in Sources(f) :
        LET released == releaseGrammar(Start, f)
            m == loadGrammar(released, f, s)
        IN f \notin DOMAIN released.sc =>
              /\ f \in DOMAIN m.sc
              /\ m.sc[f].context # sourceContexts[f].context
              /\ m.ret = m.sc[f].context
              /\ m.sc[f].source \in TextOf(f, s)
              /\ m.sc[f].dependencies = Resolve(f, Parse(m.sc[f].source))

\* A was given a text that names B alone; its last reference is released
\* and it is loaded again without a source: it has a new context, the text
\* of its file, and B and C as dependencies.
C34_Witness ==
    /\ pA \in DOMAIN sourceContexts
    /\ sourceContexts[pA].source = <<"B">>
    /\ sourceContexts[pA].dependencies = <<pB>>
    /\ LET released == releaseGrammar(Start, pA)
           m == loadGrammar(released, pA, Undefined)
       IN /\ pA \notin DOMAIN released.sc
          /\ m.sc[pA].context # sourceContexts[pA].context
          /\ m.sc[pA].source = Disk[pA]
          /\ m.sc[pA].dependencies = <<pB, pCi>>
----------------------------------------------------------------------------
\* The release of a name that is not in the map.

\* C35: releaseGrammar of a name that is not in the map does not fail and
\* does nothing: no entry is made or removed, no refCount changes, and
\* nothing is counted down, removed or torn down on the way.
C35_ReleaseAbsent ==
    \A f \in Paths \ DOMAIN sourceContexts :
        LET m == releaseGrammar(Start, f)
        IN m.sc = sourceContexts /\ m.log = <<>>

\* A and its dependencies are in the map, and two grammars that are not,
\* one without a file and one with a file, are released.
C35_Witness ==
    /\ {pA, pB, pCi} \subseteq DOMAIN sourceContexts
    /\ pN \notin DOMAIN sourceContexts
    /\ releaseGrammar(releaseGrammar(Start, pN), pCr).sc = sourceContexts
    /\ \A p \in DOMAIN sourceContexts : sourceContexts[p].refCount > 0
----------------------------------------------------------------------------
\* Sentence generation and the debugger.

\* The contexts of the entries S of sc.
ContextsOf(sc, S) == {sc[p].context : p \in S}

\* The call r of generateSentence(f) answers as C36 says: with an error in
\* the closure, one callback with the text and the index 0 and no
\* generation; without, the generation starts, after setupInterpreters for
\* the dependencies that had no interpreter data, and for no other.
SentenceAnswer(f, r) ==
    LET closure == ReachIn(r.sc, f)
    IN /\ ~r.thrown
       /\ (\E p \in closure : r.sc[p].hasErrors) =>
              r.callbacks = <<FixErrorsFirst>> /\ ~r.started
       /\ (\A p \in closure : ~r.sc[p].hasErrors) =>
              /\ r.started
              /\ Range(r.setup) = ContextsOf(r.sc, closure) \ interpreter
              /\ \A i \in DOMAIN r.callbacks : r.callbacks[i] # FixErrorsFirst

\* C36: generateSentence, when a grammar in the dependency closure of the
\* grammar has errors, calls the callback exactly once, with the text
\* "[Fix grammar errors first]" and the index 0, and starts no generation;
\* when none has errors, setupInterpreters is called for every dependency
\* without interpreter data before the generation starts.
C36_Original ==
    \A f \in PublicPaths : \A files \in DataFiles : \A count \in 0 .. MaxSentences :
        SentenceAnswer(f, generateSentence(Start, f, interpreter, files, count))

\* The same for the grammars whose dependencies do not lead back to
\* themselves.
C36_Acyclic ==
    \A f \in PublicPaths : \A files \in DataFiles : \A count \in 0 .. MaxSentences :
        LET r == generateSentence(Start, f, interpreter, files, count)
        IN AcyclicFrom(r.sc, f) => SentenceAnswer(f, r)

\* The call r of createDebugger(f) answers as C37 says.
DebuggerAnswer(f, r) ==
    LET closure == ReachIn(r.sc, f)
        erroneous == \E p \in {f} \cup closure : r.sc[p].hasErrors
    IN /\ r.contexts # <<>> =>
              /\ ~erroneous
              /\ Head(r.contexts) = r.sc[f].context
              /\ Range(Tail(r.contexts)) = ContextsOf(r.sc, closure)
              /\ Len(r.contexts) = Cardinality(Range(r.contexts))
       /\ erroneous => ~r.thrown /\ r.contexts = <<>>

\* C37: createDebugger returns a debugger only if neither the grammar nor a
\* grammar of its dependency closure has errors, and then one over the
\* context of the grammar followed by the closure, each context once; if
\* one of them has errors it returns undefined and makes no debugger.
C37_Original ==
    \A f \in PublicPaths : \A files \in DataFiles :
        DebuggerAnswer(f, createDebugger(Start, f, interpreter, files))

\* The same for the grammars whose dependencies do not lead back to
\* themselves.
C37_Acyclic ==
    \A f \in PublicPaths : \A files \in DataFiles :
        LET r == createDebugger(Start, f, interpreter, files)
        IN AcyclicFrom(r.sc, f) => DebuggerAnswer(f, r) /\ ~r.thrown
----------------------------------------------------------------------------
\* The tree data provider.

\* C38: after refresh(document), currentFile is document.fileName if and
\* only if the document is defined, its languageId is "antlr" and the scheme
\* of its uri is "file"; in every other case it is undefined, whatever it
\* was before.
C38_CurrentFile ==
    \A document \in Documents :
        LET after == refresh(currentFile, document).currentFile
            antlrFile == /\ document # NoDocument
                         /\ document.languageId = "antlr"
                         /\ document.scheme = "file"
        IN /\ antlrFile => after = document.fileName
           /\ ~antlrFile => after = Undefined
           /\ (~antlrFile /\ document # NoDocument) => after # document.fileName

\* currentFile is A, set by a refresh after one that had left it undefined,
\* and a refresh with A as an untitled antlr document makes it undefined.
C38_Witness ==
    /\ currentFile = pA
    /\ Len(notified) >= 2
    /\ notified[Len(notified) - 1] = Undefined
    /\ refresh(currentFile, [fileName |-> pA, languageId |-> "antlr",
                             scheme |-> "untitled"]).currentFile = Undefined

\* C39: every refresh fires the change event exactly once, after currentFile
\* was set: the listeners are called once and find the new currentFile,
\* whether or not the document qualifies or currentFile has changed.
C39_FiresOnce ==
    /\ \A document \in Documents :
           LET r == refresh(currentFile, document)
           IN Len(r.fired) = 1 /\ r.fired[1] = r.currentFile
    /\ notified # <<>> => notified[Len(notified)] = currentFile

\* Two refreshes in a row left currentFile undefined, one left it at A and
\* the next again: the event was fired each time.
C39_Witness ==
    /\ Len(notified) = 4
    /\ notified = <<Undefined, Undefined, pA, pA>>
    /\ currentFile = pA
----------------------------------------------------------------------------
\* The position helpers.

\* C40: for every text, with newlines and tabs, and every index i from 0 to
\* the length of the text, positionToIndex gives i back for the column and
\* the row that indexToPosition gives for i; and the position last returned
\* is that of the index it leads to.
C40_RoundTrip ==
    /\ \A i \in 0 .. Len(grammarText) :
           LET p == indexToPosition(grammarText, i)
           IN positionToIndex(grammarText, p[1], p[2]) = i
    /\ position # NoPosition =>
           indexToPosition(grammarText,
                           positionToIndex(grammarText, position[1], position[2])) = position

\* The text has a row above, a letter and a tab; the index behind the tab
\* is at column 4 of row 2 and is found again from there.
C40_Witness ==
    /\ grammarText = <<"\n", "a", "\t", "a">>
    /\ position = <<4, 2>>
    /\ positionToIndex(grammarText, 4, 2) = 3
====
